---- MODULE Spec2Model ----
(***************************************************************************)
(* Model of the action ledger (contracts/actions/ActionRepository.sol).    *)
(* The file holds two variants of the contract:                            *)
(*   "A"  the self-or-owner ledger (lines 19-188);                         *)
(*   "B"  the signature-verified, owner-gated ledger (lines 213-526).      *)
(* One transaction is one step.  A transaction that reverts leaves the     *)
(* storage as it was.  The activity checker                                *)
(* (contracts/activity/PetActivityChecker.sol) is modelled after it.       *)
(***************************************************************************)
EXTENDS Integers, Sequences, FiniteSets, TLC

\* ------------------------------------------------------------------ bounds
\* Largest value of an unsigned counter (stands for 2^256 - 1).
MaxUint == 2
\* Largest block timestamp of a run.
MaxTime == 2
\* Longest input array of recordActionsBatch.
MaxLen == 3

\* ------------------------------------------------------------- value sets
ZERO_ADDRESS == 0
Account == {1, 2}
Address == {ZERO_ADDRESS} \cup Account
\* bytes32 action identifiers, as numbers.
ActionTypes == {1, 2}
\* uint8 action ids of the signed payload.
ActionIds == {1, 2}
Nonces == {11, 12}
SignedTimes == {0, 7}
Amounts == 0..MaxUint
BatchAmounts == {0, 1}
Variants == {"A", "B"}

VARIABLES
    variant,            \* which of the two contracts is deployed
    owner,              \* owner (A: line 21, B: Ownable)
    mainSigner,         \* B: line 225
    actionCounts,       \* _actionCounts
    totalActions,       \* _totalActions
    lastActionAt,       \* _lastActionAt
    agentActive,        \* _agentActive
    actionNoncesUsed,   \* B: _actionNoncesUsed, as the set of nonces mapped to true
    now,                \* block.timestamp
    credited,           \* history: units credited through recordActionAs
    successes,          \* history: successful verifyAndConsumeAction calls per nonce
    directWriters       \* history: senders of successful owner-only writes (B)

\* The activity checker (contracts/activity/PetActivityChecker.sol) and the
\* isRatioPass call most recently evaluated on it.
VARIABLES
    checkerOwner,       \* owner of the checker (zero while it is not deployed)
    livenessRatio,      \* livenessRatio
    curNonces,          \* isRatioPass: curNonces
    lastNonces,         \* isRatioPass: lastNonces
    tsDelta,            \* isRatioPass: ts
    outcome,            \* "idle", or how the call ended: "returned" or "Panic"
    ratioPass           \* what the call returned

\* The optional thresholds of the three-field checker (zero: not configured).
VARIABLES
    minActionsPerPeriod,
    maxInactivity

floorVars == <<minActionsPerPeriod, maxInactivity>>

\* The last call of getMultisigNonces: its argument (zero: no call yet) and
\* the snapshot it returned.
VARIABLES
    snapAgent,
    snapNonces

snapVars == <<snapAgent, snapNonces>>

checkerVars == <<checkerOwner, livenessRatio, curNonces, lastNonces, tsDelta, outcome,
                 ratioPass, floorVars, snapVars>>

vars == <<variant, owner, mainSigner, actionCounts, totalActions, lastActionAt,
          agentActive, actionNoncesUsed, now, credited, successes,
          directWriters, checkerVars>>

\* The contract storage as one value (what a revert restores).
Storage ==
    [owner |-> owner, mainSigner |-> mainSigner, counts |-> actionCounts,
     total |-> totalActions, lastAt |-> lastActionAt, active |-> agentActive,
     used |-> actionNoncesUsed, credited |-> credited]

\* Outcome of executing a function body: the storage it reached, the error it
\* raised ("none" when it returned) and its return value.
Result(st, err, ret) == [st |-> st, err |-> err, ret |-> ret]

\* A transaction is all-or-nothing: a revert discards every write made so far.
NoRollback(S, r) == r.st
Tx(S, r) == IF r.err = "none" THEN r.st ELSE S

\* Checked unsigned addition (Solidity >= 0.8): a sum past the maximum panics
\* instead of wrapping.  Add is the sum as the machine word holds it.
NeverOverflows(a, b) == FALSE
Overflows(a, b) == a + b > MaxUint
Add(a, b) == (a + b) % (MaxUint + 1)


\* ------------------------------------------------- variant A: self-or-owner
\* modifier onlyOwner (A): TRUE when the caller passes.
onlyOwner(S, sender) == sender = S.owner

\* onlyOwnerOrAgent that lets every caller pass.
onlyOwnerOrAgent_Open(S, sender, agent) == TRUE

\* modifier onlyOwnerOrAgent: TRUE when the caller passes.
onlyOwnerOrAgent(S, sender, agent) == ~(sender # agent /\ sender # S.owner)

\* constructor(admin) of variant A: the storage it leaves, or ZeroAddress.
constructorA(admin) ==
    LET S0 == [owner |-> ZERO_ADDRESS, mainSigner |-> ZERO_ADDRESS,
               counts |-> [a \in Address |-> [t \in ActionTypes |-> 0]],
               total |-> [a \in Address |-> 0],
               lastAt |-> [a \in Address |-> 0],
               active |-> [a \in Address |-> FALSE],
               used |-> {}, credited |-> 0]
    IN IF admin = ZERO_ADDRESS THEN Result(S0, "ZeroAddress", 0)
       ELSE Result([S0 EXCEPT !.owner = admin], "none", 0)

\* transferOwnership without the check of the new owner.
transferOwnership_ToZero(S, sender, newOwner) ==
    IF ~onlyOwner(S, sender) THEN Result(S, "NotOwner", 0)
    ELSE Result([S EXCEPT !.owner = newOwner], "none", 0)

\* transferOwnership without the check of the sender.
transferOwnership_AnySender(S, sender, newOwner) ==
    IF newOwner = ZERO_ADDRESS THEN Result(S, "ZeroAddress", 0)
    ELSE Result([S EXCEPT !.owner = newOwner], "none", 0)

transferOwnership(S, sender, newOwner) ==
    IF ~onlyOwner(S, sender) THEN Result(S, "NotOwner", 0)
    ELSE IF newOwner = ZERO_ADDRESS THEN Result(S, "ZeroAddress", 0)
    ELSE Result([S EXCEPT !.owner = newOwner], "none", 0)

\* setAgentStatus that does not deactivate an agent with recorded actions.
setAgentStatus_KeepsBusy(S, sender, agent, active) ==
    IF ~onlyOwnerOrAgent(S, sender, agent) THEN Result(S, "NotAuthorized", 0)
    ELSE IF agent = ZERO_ADDRESS THEN Result(S, "ZeroAddress", 0)
    ELSE Result([S EXCEPT !.active[agent] = active \/ S.total[agent] > 0], "none", 0)

setAgentStatus(S, sender, agent, active) ==
    IF ~onlyOwnerOrAgent(S, sender, agent) THEN Result(S, "NotAuthorized", 0)
    ELSE IF agent = ZERO_ADDRESS THEN Result(S, "ZeroAddress", 0)
    ELSE Result([S EXCEPT !.active[agent] = active], "none", 0)

\* recordAction without the check of the agent address.
recordAction_AnyAgent(S, sender, agent, actionType, amount, time) ==
    IF ~onlyOwnerOrAgent(S, sender, agent) THEN Result(S, "NotAuthorized", 0)
    ELSE IF amount = 0 THEN Result(S, "ZeroAmount", 0)
    ELSE IF Overflows(S.counts[agent][actionType], amount) THEN Result(S, "Panic", 0)
    ELSE
      LET updatedActionCount == Add(S.counts[agent][actionType], amount)
          S1 == [S EXCEPT !.counts[agent][actionType] = updatedActionCount]
      IN IF Overflows(S1.total[agent], amount) THEN Result(S1, "Panic", 0)
         ELSE
           LET updatedTotal == Add(S1.total[agent], amount)
               S2 == [S1 EXCEPT !.total[agent] = updatedTotal,
                                !.lastAt[agent] = time,
                                !.active[agent] = TRUE]
           IN Result(S2, "none", updatedActionCount)

\* recordAction that leaves the active flag alone.
recordAction_NoActivate(S, sender, agent, actionType, amount, time) ==
    IF ~onlyOwnerOrAgent(S, sender, agent) THEN Result(S, "NotAuthorized", 0)
    ELSE IF agent = ZERO_ADDRESS THEN Result(S, "ZeroAddress", 0)
    ELSE IF amount = 0 THEN Result(S, "ZeroAmount", 0)
    ELSE IF Overflows(S.counts[agent][actionType], amount) THEN Result(S, "Panic", 0)
    ELSE
      LET updatedActionCount == Add(S.counts[agent][actionType], amount)
          S1 == [S EXCEPT !.counts[agent][actionType] = updatedActionCount]
      IN IF Overflows(S1.total[agent], amount) THEN Result(S1, "Panic", 0)
         ELSE
           LET updatedTotal == Add(S1.total[agent], amount)
               S2 == [S1 EXCEPT !.total[agent] = updatedTotal,
                                !.lastAt[agent] = time]
           IN Result(S2, "none", updatedActionCount)

\* recordAction without the update of the aggregate counter.
recordAction_NoTotal(S, sender, agent, actionType, amount, time) ==
    IF ~onlyOwnerOrAgent(S, sender, agent) THEN Result(S, "NotAuthorized", 0)
    ELSE IF agent = ZERO_ADDRESS THEN Result(S, "ZeroAddress", 0)
    ELSE IF amount = 0 THEN Result(S, "ZeroAmount", 0)
    ELSE IF Overflows(S.counts[agent][actionType], amount) THEN Result(S, "Panic", 0)
    ELSE
      LET updatedActionCount == Add(S.counts[agent][actionType], amount)
          S1 == [S EXCEPT !.counts[agent][actionType] = updatedActionCount,
                          !.lastAt[agent] = time,
                          !.active[agent] = TRUE]
      IN Result(S1, "none", updatedActionCount)

recordAction(S, sender, agent, actionType, amount, time) ==
    IF ~onlyOwnerOrAgent(S, sender, agent) THEN Result(S, "NotAuthorized", 0)
    ELSE IF agent = ZERO_ADDRESS THEN Result(S, "ZeroAddress", 0)
    ELSE IF amount = 0 THEN Result(S, "ZeroAmount", 0)
    ELSE IF Overflows(S.counts[agent][actionType], amount) THEN Result(S, "Panic", 0)
    ELSE
      LET updatedActionCount == Add(S.counts[agent][actionType], amount)
          S1 == [S EXCEPT !.counts[agent][actionType] = updatedActionCount]
      IN IF Overflows(S1.total[agent], amount) THEN Result(S1, "Panic", 0)
         ELSE
           LET updatedTotal == Add(S1.total[agent], amount)
               S2 == [S1 EXCEPT !.total[agent] = updatedTotal,
                                !.lastAt[agent] = time,
                                !.active[agent] = TRUE]
           IN Result(S2, "none", updatedActionCount)

\* recordActionForSelf that also stamps the owner's last action time.
recordActionForSelf_StampsOwner(S, sender, actionType, amount, time) ==
    LET r == recordAction(S, sender, sender, actionType, amount, time) IN
    IF r.err # "none" THEN r
    ELSE Result([r.st EXCEPT !.lastAt[S.owner] = time], "none", r.ret)

recordActionForSelf(S, sender, actionType, amount, time) ==
    recordAction(S, sender, sender, actionType, amount, time)

\* The loop with a zero amount skipped instead of rejected.
RECURSIVE batchLoop_SkipZero(_, _, _, _, _, _, _)
batchLoop_SkipZero(S, agent, actionTypes, amounts, i, newTotal, totalAdded) ==
    LET Out(st, err) == [st |-> st, err |-> err, newTotal |-> newTotal,
                         totalAdded |-> totalAdded]
    IN
    IF i > Len(actionTypes) THEN Out(S, "none")
    ELSE IF i > Len(amounts) THEN Out(S, "Panic")
    ELSE
      LET amount == amounts[i] IN
      IF amount = 0
      THEN batchLoop_SkipZero(S, agent, actionTypes, amounts, i + 1, newTotal, totalAdded)
      ELSE
        LET actionType == actionTypes[i] IN
        IF Overflows(S.counts[agent][actionType], amount) THEN Out(S, "Panic")
        ELSE
          LET updatedActionCount == Add(S.counts[agent][actionType], amount)
              S1 == [S EXCEPT !.counts[agent][actionType] = updatedActionCount]
          IN IF Overflows(newTotal, amount) THEN Out(S1, "Panic")
             ELSE IF Overflows(totalAdded, amount) THEN Out(S1, "Panic")
             ELSE batchLoop_SkipZero(S1, agent, actionTypes, amounts, i + 1,
                                     Add(newTotal, amount), Add(totalAdded, amount))

\* The loop that counts an action type only at its first occurrence in the
\* batch.
RECURSIVE batchLoop_FirstOfType(_, _, _, _, _, _, _)
batchLoop_FirstOfType(S, agent, actionTypes, amounts, i, newTotal, totalAdded) ==
    LET Out(st, err) == [st |-> st, err |-> err, newTotal |-> newTotal,
                         totalAdded |-> totalAdded]
    IN
    IF i > Len(actionTypes) THEN Out(S, "none")
    ELSE IF i > Len(amounts) THEN Out(S, "Panic")
    ELSE
      LET amount == amounts[i] IN
      IF amount = 0 THEN Out(S, "ZeroAmount")
      ELSE
        LET actionType == actionTypes[i] IN
        IF Overflows(S.counts[agent][actionType], amount) THEN Out(S, "Panic")
        ELSE
          LET seen == \E k \in 1..(i - 1) : actionTypes[k] = actionType
              S1 == IF seen THEN S
                    ELSE [S EXCEPT !.counts[agent][actionType] =
                                      Add(S.counts[agent][actionType], amount)]
          IN IF Overflows(newTotal, amount) THEN Out(S1, "Panic")
             ELSE IF Overflows(totalAdded, amount) THEN Out(S1, "Panic")
             ELSE batchLoop_FirstOfType(S1, agent, actionTypes, amounts, i + 1,
                                        Add(newTotal, amount), Add(totalAdded, amount))

\* The for loop of recordActionsBatch from index i (1-based here) on: the
\* storage after the items processed so far, newTotal and totalAdded.
RECURSIVE batchLoop(_, _, _, _, _, _, _)
batchLoop(S, agent, actionTypes, amounts, i, newTotal, totalAdded) ==
    LET Out(st, err) == [st |-> st, err |-> err, newTotal |-> newTotal,
                         totalAdded |-> totalAdded]
    IN
    IF i > Len(actionTypes) THEN Out(S, "none")
    ELSE IF i > Len(amounts) THEN Out(S, "Panic")
    ELSE
      LET amount == amounts[i] IN
      IF amount = 0 THEN Out(S, "ZeroAmount")
      ELSE
        LET actionType == actionTypes[i] IN
        IF Overflows(S.counts[agent][actionType], amount) THEN Out(S, "Panic")
        ELSE
          LET updatedActionCount == Add(S.counts[agent][actionType], amount)
              S1 == [S EXCEPT !.counts[agent][actionType] = updatedActionCount]
          IN IF Overflows(newTotal, amount) THEN Out(S1, "Panic")
             ELSE IF Overflows(totalAdded, amount) THEN Out(S1, "Panic")
             ELSE batchLoop(S1, agent, actionTypes, amounts, i + 1,
                            Add(newTotal, amount), Add(totalAdded, amount))

\* recordActionsBatch that stamps the agent whatever was added.
recordActionsBatch_AlwaysStamp(S, sender, agent, actionTypes, amounts, time) ==
    IF ~onlyOwnerOrAgent(S, sender, agent) THEN Result(S, "NotAuthorized", 0)
    ELSE IF agent = ZERO_ADDRESS THEN Result(S, "ZeroAddress", 0)
    ELSE IF Len(actionTypes) # Len(amounts) THEN Result(S, "ArrayLengthMismatch", 0)
    ELSE
      LET loop == batchLoop(S, agent, actionTypes, amounts, 1, S.total[agent], 0) IN
      IF loop.err # "none" THEN Result(loop.st, loop.err, 0)
      ELSE Result([loop.st EXCEPT !.total[agent] = loop.newTotal,
                                  !.lastAt[agent] = time,
                                  !.active[agent] = TRUE],
                  "none", loop.totalAdded)

recordActionsBatch(S, sender, agent, actionTypes, amounts, time) ==
    IF ~onlyOwnerOrAgent(S, sender, agent) THEN Result(S, "NotAuthorized", 0)
    ELSE IF agent = ZERO_ADDRESS THEN Result(S, "ZeroAddress", 0)
    ELSE IF Len(actionTypes) # Len(amounts) THEN Result(S, "ArrayLengthMismatch", 0)
    ELSE
      LET loop == batchLoop(S, agent, actionTypes, amounts, 1, S.total[agent], 0) IN
      IF loop.err # "none" THEN Result(loop.st, loop.err, 0)
      ELSE IF loop.totalAdded > 0
           THEN Result([loop.st EXCEPT !.total[agent] = loop.newTotal,
                                       !.lastAt[agent] = time,
                                       !.active[agent] = TRUE],
                       "none", loop.totalAdded)
           ELSE Result(loop.st, "none", loop.totalAdded)

\* ------------------------------------------- variant B: signature-verified
\* Ownable's constructor rejects a zero owner; the contract's a zero signer.
\* The constructor of variant B without the check of the signer.
constructorB_AnySigner(_owner, _signer) ==
    LET S0 == constructorA(_owner).st IN
    IF _owner = ZERO_ADDRESS THEN Result(S0, "OwnableInvalidOwner", 0)
    ELSE Result([S0 EXCEPT !.owner = _owner, !.mainSigner = _signer], "none", 0)

constructorB(_owner, _signer) ==
    LET S0 == constructorA(_owner).st IN
    IF _owner = ZERO_ADDRESS THEN Result(S0, "OwnableInvalidOwner", 0)
    ELSE IF _signer = ZERO_ADDRESS THEN Result(S0, "ZeroAddress", 0)
    ELSE Result([S0 EXCEPT !.owner = _owner, !.mainSigner = _signer], "none", 0)

\* Ownable.transferOwnership, inherited by variant B.
transferOwnershipB(S, sender, newOwner) ==
    IF sender # S.owner THEN Result(S, "OwnableUnauthorizedAccount", 0)
    ELSE IF newOwner = ZERO_ADDRESS THEN Result(S, "OwnableInvalidOwner", 0)
    ELSE Result([S EXCEPT !.owner = newOwner], "none", 0)

\* Ownable.renounceOwnership, inherited by variant B.
renounceOwnership(S, sender) ==
    IF sender # S.owner THEN Result(S, "OwnableUnauthorizedAccount", 0)
    ELSE Result([S EXCEPT !.owner = ZERO_ADDRESS], "none", 0)

\* recordAction(actionType, amount) of variant B: owner only, credits msg.sender.
\* recordAction of variant B without the onlyOwner modifier.
recordActionB_NoGate(S, sender, actionType, amount, time) ==
    IF sender = ZERO_ADDRESS THEN Result(S, "ZeroAddress", 0)
    ELSE IF amount = 0 THEN Result(S, "ZeroAmount", 0)
    ELSE IF Overflows(S.counts[sender][actionType], amount) THEN Result(S, "Panic", 0)
    ELSE
      LET updatedActionCount == Add(S.counts[sender][actionType], amount)
          S1 == [S EXCEPT !.counts[sender][actionType] = updatedActionCount]
      IN IF Overflows(S1.total[sender], amount) THEN Result(S1, "Panic", 0)
         ELSE Result([S1 EXCEPT !.total[sender] = Add(S1.total[sender], amount),
                                !.lastAt[sender] = time,
                                !.active[sender] = TRUE], "none", updatedActionCount)

recordActionB(S, sender, actionType, amount, time) ==
    IF sender # S.owner THEN Result(S, "OwnableUnauthorizedAccount", 0)
    ELSE IF sender = ZERO_ADDRESS THEN Result(S, "ZeroAddress", 0)
    ELSE IF amount = 0 THEN Result(S, "ZeroAmount", 0)
    ELSE IF Overflows(S.counts[sender][actionType], amount) THEN Result(S, "Panic", 0)
    ELSE
      LET updatedActionCount == Add(S.counts[sender][actionType], amount)
          S1 == [S EXCEPT !.counts[sender][actionType] = updatedActionCount]
      IN IF Overflows(S1.total[sender], amount) THEN Result(S1, "Panic", 0)
         ELSE
           LET updatedTotal == Add(S1.total[sender], amount)
               S2 == [S1 EXCEPT !.total[sender] = updatedTotal,
                                !.lastAt[sender] = time,
                                !.active[sender] = TRUE]
           IN Result(S2, "none", updatedActionCount)

\* recordActionsBatch(actionTypes, amounts) of variant B (same loop, agent = msg.sender).
recordActionsBatchB(S, sender, actionTypes, amounts, time) ==
    IF sender # S.owner THEN Result(S, "OwnableUnauthorizedAccount", 0)
    ELSE IF sender = ZERO_ADDRESS THEN Result(S, "ZeroAddress", 0)
    ELSE IF Len(actionTypes) # Len(amounts) THEN Result(S, "ArrayLengthMismatch", 0)
    ELSE
      LET loop == batchLoop(S, sender, actionTypes, amounts, 1, S.total[sender], 0) IN
      IF loop.err # "none" THEN Result(loop.st, loop.err, 0)
      ELSE IF loop.totalAdded > 0
           THEN Result([loop.st EXCEPT !.total[sender] = loop.newTotal,
                                       !.lastAt[sender] = time,
                                       !.active[sender] = TRUE],
                       "none", loop.totalAdded)
           ELSE Result(loop.st, "none", loop.totalAdded)

\* The EIP-712 digest of a PetAction: it binds the three payload fields.
hashTypedData(actionId, nonce, timestamp) == <<actionId, nonce, timestamp>>

\* A signature is the signer and the digest that was signed; signer
\* ZERO_ADDRESS stands for bytes that are no valid signature at all.
Signatures ==
    [signer : Address, actionId : ActionIds, nonce : Nonces, timestamp : SignedTimes]

\* The address a valid signature over another digest recovers to: no account
\* of the system.
UnrelatedSigner == 3

\* verifyAction: ECDSA.recover over the digest of the submitted payload.
verifyAction(actionId, nonce, timestamp, sig) ==
    LET hash == hashTypedData(actionId, nonce, timestamp) IN
    IF sig.signer = ZERO_ADDRESS THEN [err |-> "ECDSAInvalidSignature", ret |-> ZERO_ADDRESS]
    ELSE IF hashTypedData(sig.actionId, sig.nonce, sig.timestamp) = hash
         THEN [err |-> "none", ret |-> sig.signer]
         ELSE [err |-> "none", ret |-> UnrelatedSigner]

\* _useNonce that marks the nonce without looking whether it was used.
_useNonce_NoCheck(S, nonce) ==
    Result([S EXCEPT !.used = @ \cup {nonce}], "none", nonce)

\* _useNonce that checks the nonce but does not mark it.
_useNonce_NoMark(S, nonce) ==
    IF nonce \in S.used THEN Result(S, "NonceAlreadyUsed", nonce)
    ELSE Result(S, "none", nonce)

_useNonce(S, nonce) ==
    IF nonce \in S.used THEN Result(S, "NonceAlreadyUsed", nonce)
    ELSE Result([S EXCEPT !.used = @ \cup {nonce}], "none", nonce)

\* bytes32(uint256(actionId)): zero extension of the uint8.
ToBytes32(actionId) == actionId

\* recordActionAs that leaves the last-action timestamp alone.
recordActionAs_NoTimestamp(S, actionType, amount, agent, time) ==
    IF agent = ZERO_ADDRESS THEN Result(S, "ZeroAddress", 0)
    ELSE IF amount = 0 THEN Result(S, "ZeroAmount", 0)
    ELSE IF Overflows(S.counts[agent][actionType], amount) THEN Result(S, "Panic", 0)
    ELSE
      LET updatedActionCount == Add(S.counts[agent][actionType], amount)
          S1 == [S EXCEPT !.counts[agent][actionType] = updatedActionCount]
      IN IF Overflows(S1.total[agent], amount) THEN Result(S1, "Panic", 0)
         ELSE
           LET updatedTotal == Add(S1.total[agent], amount)
               S2 == [S1 EXCEPT !.total[agent] = updatedTotal,
                                !.active[agent] = TRUE,
                                !.credited = @ + amount]
           IN Result(S2, "none", updatedActionCount)

recordActionAs(S, actionType, amount, agent, time) ==
    IF agent = ZERO_ADDRESS THEN Result(S, "ZeroAddress", 0)
    ELSE IF amount = 0 THEN Result(S, "ZeroAmount", 0)
    ELSE IF Overflows(S.counts[agent][actionType], amount) THEN Result(S, "Panic", 0)
    ELSE
      LET updatedActionCount == Add(S.counts[agent][actionType], amount)
          S1 == [S EXCEPT !.counts[agent][actionType] = updatedActionCount]
      IN IF Overflows(S1.total[agent], amount) THEN Result(S1, "Panic", 0)
         ELSE
           LET updatedTotal == Add(S1.total[agent], amount)
               S2 == [S1 EXCEPT !.total[agent] = updatedTotal,
                                !.lastAt[agent] = time,
                                !.active[agent] = TRUE,
                                !.credited = @ + amount]
           IN Result(S2, "none", updatedActionCount)

\* verifyAndConsumeAction that accepts the signature of any signer.
verifyAndConsumeAction_AnySigner(S, sender, actionId, nonce, timestamp, sig, time) ==
    LET u == _useNonce(S, nonce) IN
    IF u.err # "none" THEN Result(u.st, u.err, 0)
    ELSE
      LET v == verifyAction(actionId, nonce, timestamp, sig) IN
      IF v.err # "none" THEN Result(u.st, v.err, 0)
      ELSE recordActionAs(u.st, ToBytes32(actionId), 1, u.st.mainSigner, time)

\* verifyAndConsumeAction with the signature compared before the nonce is used.
verifyAndConsumeAction_SigFirst(S, sender, actionId, nonce, timestamp, sig, time) ==
    LET v == verifyAction(actionId, nonce, timestamp, sig) IN
    IF v.err # "none" THEN Result(S, v.err, 0)
    ELSE IF v.ret # S.mainSigner THEN Result(S, "InvalidSignature", 0)
    ELSE
      LET u == _useNonce(S, nonce) IN
      IF u.err # "none" THEN Result(u.st, u.err, 0)
      ELSE recordActionAs(u.st, ToBytes32(actionId), 1, u.st.mainSigner, time)

\* verifyAndConsumeAction that stamps the record with the signed timestamp.
verifyAndConsumeAction_SignedStamp(S, sender, actionId, nonce, timestamp, sig, time) ==
    LET u == _useNonce(S, nonce) IN
    IF u.err # "none" THEN Result(u.st, u.err, 0)
    ELSE
      LET v == verifyAction(actionId, u.ret, timestamp, sig) IN
      IF v.err # "none" THEN Result(u.st, v.err, 0)
      ELSE IF v.ret # u.st.mainSigner THEN Result(u.st, "InvalidSignature", 0)
      ELSE recordActionAs(u.st, ToBytes32(actionId), 1, u.st.mainSigner, timestamp)

\* verifyAndConsumeAction that credits the sender of the transaction.
verifyAndConsumeAction_CreditsSender(S, sender, actionId, nonce, timestamp, sig, time) ==
    LET u == _useNonce(S, nonce) IN
    IF u.err # "none" THEN Result(u.st, u.err, 0)
    ELSE
      LET v == verifyAction(actionId, u.ret, timestamp, sig) IN
      IF v.err # "none" THEN Result(u.st, v.err, 0)
      ELSE IF v.ret # u.st.mainSigner THEN Result(u.st, "InvalidSignature", 0)
      ELSE recordActionAs(u.st, ToBytes32(actionId), 1, sender, time)

\* The nonce is consumed while the arguments of verifyAction are evaluated,
\* hence before the signature is recovered and compared.
verifyAndConsumeAction(S, sender, actionId, nonce, timestamp, sig, time) ==
    LET u == _useNonce(S, nonce) IN
    IF u.err # "none" THEN Result(u.st, u.err, 0)
    ELSE
      LET v == verifyAction(actionId, u.ret, timestamp, sig) IN
      IF v.err # "none" THEN Result(u.st, v.err, 0)
      ELSE IF v.ret # u.st.mainSigner THEN Result(u.st, "InvalidSignature", 0)
      ELSE recordActionAs(u.st, ToBytes32(actionId), 1, u.st.mainSigner, time)


\* ------------------------------------------------------------ transactions
SeqsUpTo(D, n) == UNION {[1..k -> D] : k \in 0..n}

\* Ends the transaction of a call with outcome r: the storage becomes what the
\* call left, or stays as it was when the call reverted.
Commit(r) ==
    LET S2 == Tx(Storage, r) IN
    /\ owner' = S2.owner
    /\ mainSigner' = S2.mainSigner
    /\ actionCounts' = S2.counts
    /\ totalActions' = S2.total
    /\ lastActionAt' = S2.lastAt
    /\ agentActive' = S2.active
    /\ actionNoncesUsed' = S2.used
    /\ credited' = S2.credited
    /\ UNCHANGED <<variant, now, checkerVars>>

\* No checker is deployed: its storage reads as zero and no call was made.
CheckerNotDeployed ==
    /\ checkerOwner = ZERO_ADDRESS
    /\ livenessRatio = 0
    /\ curNonces = <<>>
    /\ lastNonces = <<>>
    /\ tsDelta = 0
    /\ outcome = "idle"
    /\ ratioPass = FALSE
    /\ minActionsPerPeriod = 0
    /\ maxInactivity = 0
    /\ snapAgent = ZERO_ADDRESS
    /\ snapNonces = <<>>

Init ==
    /\ variant \in Variants
    /\ \E admin \in Address, signer \in Address :
         LET r == IF variant = "A" THEN constructorA(admin)
                  ELSE constructorB(admin, signer)
         IN /\ r.err = "none"
            /\ (variant = "A" => signer = ZERO_ADDRESS)
            /\ owner = r.st.owner
            /\ mainSigner = r.st.mainSigner
            /\ actionCounts = r.st.counts
            /\ totalActions = r.st.total
            /\ lastActionAt = r.st.lastAt
            /\ agentActive = r.st.active
            /\ actionNoncesUsed = r.st.used
            /\ credited = r.st.credited
    /\ now = 1
    /\ successes = [n \in Nonces |-> 0]
    /\ directWriters = {}
    /\ CheckerNotDeployed

\* Time passes between blocks.
Tick ==
    /\ now < MaxTime
    /\ now' = now + 1
    /\ UNCHANGED <<variant, owner, mainSigner, actionCounts, totalActions,
                   lastActionAt, agentActive, actionNoncesUsed, credited, successes,
                   directWriters, checkerVars>>

TransferOwnership(c, newOwner) ==
    /\ variant = "A"
    /\ Commit(transferOwnership(Storage, c, newOwner))
    /\ UNCHANGED <<successes, directWriters>>

SetAgentStatus(c, agent, active) ==
    /\ variant = "A"
    /\ Commit(setAgentStatus(Storage, c, agent, active))
    /\ UNCHANGED <<successes, directWriters>>

RecordAction(c, agent, actionType, amount) ==
    /\ variant = "A"
    /\ Commit(recordAction(Storage, c, agent, actionType, amount, now))
    /\ UNCHANGED <<successes, directWriters>>

RecordActionForSelf(c, actionType, amount) ==
    /\ variant = "A"
    /\ Commit(recordActionForSelf(Storage, c, actionType, amount, now))
    /\ UNCHANGED <<successes, directWriters>>

RecordActionsBatch(c, agent, actionTypes, amounts) ==
    /\ variant = "A"
    /\ Commit(recordActionsBatch(Storage, c, agent, actionTypes, amounts, now))
    /\ UNCHANGED <<successes, directWriters>>

TransferOwnershipB(c, newOwner) ==
    /\ variant = "B"
    /\ Commit(transferOwnershipB(Storage, c, newOwner))
    /\ UNCHANGED <<successes, directWriters>>

RenounceOwnership(c) ==
    /\ variant = "B"
    /\ Commit(renounceOwnership(Storage, c))
    /\ UNCHANGED <<successes, directWriters>>

RecordActionB(c, actionType, amount) ==
    /\ variant = "B"
    /\ LET r == recordActionB(Storage, c, actionType, amount, now) IN
       /\ Commit(r)
       /\ directWriters' = IF r.err = "none" THEN directWriters \cup {c}
                           ELSE directWriters
    /\ UNCHANGED successes

RecordActionsBatchB(c, actionTypes, amounts) ==
    /\ variant = "B"
    /\ LET r == recordActionsBatchB(Storage, c, actionTypes, amounts, now) IN
       /\ Commit(r)
       /\ directWriters' = IF r.err = "none" THEN directWriters \cup {c}
                           ELSE directWriters
    /\ UNCHANGED successes

VerifyAndConsumeAction(c, actionId, nonce, timestamp, sig) ==
    /\ variant = "B"
    /\ LET r == verifyAndConsumeAction(Storage, c, actionId, nonce, timestamp, sig, now) IN
       /\ Commit(r)
       /\ successes' = IF r.err = "none"
                       THEN [successes EXCEPT ![nonce] = @ + 1]
                       ELSE successes
    /\ UNCHANGED directWriters

\* The batches of arrays of equal length up to MaxLen, as pairs
\* <<actionTypes, amounts>> (a zero amount always with the first action type:
\* the loop stops at a zero amount before it reads the type).
EqualBatches ==
    {b \in SeqsUpTo(ActionTypes, MaxLen) \X SeqsUpTo(BatchAmounts, MaxLen) :
        /\ Len(b[1]) = Len(b[2])
        /\ \A i \in 1..Len(b[1]) : b[2][i] = 0 => b[1][i] = 1}

AllOnes(n) == [i \in 1..n |-> 1]

\* The batches with the last amount or the last type missing.
MismatchedBatches ==
    {<<AllOnes(k), AllOnes(k - 1)>> : k \in 1..MaxLen}
        \cup {<<AllOnes(k - 1), AllOnes(k)>> : k \in 1..MaxLen}

\* The batches submitted: every batch of non-zero amounts, the batches of one
\* action type with a single zero amount at any position, and the mismatched.
BatchInputs ==
    {b \in EqualBatches :
        \/ \A i \in 1..Len(b[2]) : b[2][i] # 0
        \/ /\ b[1] = AllOnes(Len(b[1]))
           /\ Cardinality({i \in 1..Len(b[2]) : b[2][i] = 0}) = 1}
    \cup MismatchedBatches

\* A signature of the signer over the payload (actionId, nonce, timestamp).
SignatureOf(signer, actionId, nonce, timestamp) ==
    [signer |-> signer, actionId |-> actionId, nonce |-> nonce,
     timestamp |-> timestamp]

\* The signatures submitted with a payload: over the payload itself by any
\* account, malformed, or by some account over a payload that differs from it
\* in one field.
SigInputs(actionId, nonce, timestamp) ==
    {SignatureOf(s, actionId, nonce, timestamp) : s \in Address}
    \cup {SignatureOf(s, i, nonce, timestamp) :
            s \in Account, i \in ActionIds \ {actionId}}
    \cup {SignatureOf(s, actionId, n, timestamp) :
            s \in Account, n \in Nonces \ {nonce}}
    \cup {SignatureOf(s, actionId, nonce, t) :
            s \in Account, t \in SignedTimes \ {timestamp}}

Next ==
    \/ Tick
    \/ \E c \in Account, n \in Address : TransferOwnership(c, n)
    \/ \E c \in Account, a \in Address, b \in BOOLEAN : SetAgentStatus(c, a, b)
    \/ \E c \in Account, a \in Address, t \in ActionTypes, m \in Amounts :
          RecordAction(c, a, t, m)
    \/ \E c \in Account, t \in ActionTypes, m \in Amounts : RecordActionForSelf(c, t, m)
    \/ \E c \in Account, a \in Address, b \in BatchInputs :
          RecordActionsBatch(c, a, b[1], b[2])
    \/ \E c \in Account, n \in Address : TransferOwnershipB(c, n)
    \/ \E c \in Account : RenounceOwnership(c)
    \/ \E c \in Account, t \in ActionTypes, m \in Amounts : RecordActionB(c, t, m)
    \/ \E c \in Account, b \in BatchInputs : RecordActionsBatchB(c, b[1], b[2])
    \/ \E c \in Account, id \in ActionIds, n \in Nonces, ts \in SignedTimes :
         \E sig \in SigInputs(id, n, ts) : VerifyAndConsumeAction(c, id, n, ts, sig)

Spec == Init /\ [][Next]_vars

\* The self-or-owner ledger alone.
InitA == Init /\ variant = "A"

NextA ==
    \/ Tick
    \/ \E c \in Account, n \in Address : TransferOwnership(c, n)
    \/ \E c \in Account, a \in Address, b \in BOOLEAN : SetAgentStatus(c, a, b)
    \/ \E c \in Account, a \in Address, t \in ActionTypes, m \in Amounts :
          RecordAction(c, a, t, m)
    \/ \E c \in Account, t \in ActionTypes, m \in Amounts : RecordActionForSelf(c, t, m)
    \/ \E c \in Account, a \in Address, b \in BatchInputs :
          RecordActionsBatch(c, a, b[1], b[2])

SpecA == InitA /\ [][NextA]_vars

\* The signature-verified ledger alone.
InitB == Init /\ variant = "B"

NextB ==
    \/ Tick
    \/ \E c \in Account, n \in Address : TransferOwnershipB(c, n)
    \/ \E c \in Account : RenounceOwnership(c)
    \/ \E c \in Account, t \in ActionTypes, m \in Amounts : RecordActionB(c, t, m)
    \/ \E c \in Account, b \in BatchInputs : RecordActionsBatchB(c, b[1], b[2])
    \/ \E c \in Account, id \in ActionIds, n \in Nonces, ts \in SignedTimes :
         \E sig \in SigInputs(id, n, ts) : VerifyAndConsumeAction(c, id, n, ts, sig)

SpecB == InitB /\ [][NextB]_vars


\* ========================================================= activity checker
\* Width of the checker's machine words (stands for 256): wide enough for
\* the thirty-day constant, narrow enough for diff * ONE to leave the word.
WordBits == 22
MaxWord == 2 ^ WordBits - 1
\* Fixed-point unit (stands for 10^18): two decimals.
ONE == 100
THIRTY_DAYS_SECONDS == 2592000

\* Checked unsigned multiplication: a product past the word panics.
MulOverflows(a, b) == a # 0 /\ b > MaxWord \div a

\* constructor(repository, _livenessRatio, _owner): the owner and ratio it
\* stores, or the error it reverts with.
constructorChecker(repository, _livenessRatio, _owner) ==
    IF repository = ZERO_ADDRESS
    THEN [err |-> "ZeroAddress", owner |-> ZERO_ADDRESS, livenessRatio |-> 0]
    ELSE IF _livenessRatio = 0
    THEN [err |-> "ZeroValue", owner |-> ZERO_ADDRESS, livenessRatio |-> 0]
    ELSE IF _owner = ZERO_ADDRESS
    THEN [err |-> "ZeroAddress", owner |-> ZERO_ADDRESS, livenessRatio |-> 0]
    ELSE [err |-> "none", owner |-> _owner, livenessRatio |-> _livenessRatio]

\* getMultisigNonces that returns the flag before the total.
getMultisigNonces_FlagFirst(S, agent) ==
    <<IF S.active[agent] THEN 1 ELSE 0, S.total[agent]>>

\* getMultisigNonces(agent) read from ledger storage S. Arrays are 1-based
\* here: index 0 of the source is index 1.
getMultisigNonces(S, agent) ==
    <<S.total[agent], IF S.active[agent] THEN 1 ELSE 0>>

\* The guard on the active flag, stored at index 1 of the source array.
InactiveFlag_Never(cur) == FALSE
InactiveFlag(cur) == cur[2] = 0

\* The guard on a zero time delta.
ZeroWindow_Never(t) == FALSE
ZeroWindow(t) == t = 0

\* The cap on the time delta: one month or more is out of bounds.
TooLongWindow_Never(t) == FALSE
TooLongWindow(t) == t >= THIRTY_DAYS_SECONDS

\* The guard on the order of the totals, and the checked subtraction that
\* follows it: a negative difference panics.
NotIncreased_Never(currentCount, previousCount) == FALSE
NotIncreased(currentCount, previousCount) == currentCount <= previousCount
SubUnderflows(a, b) == a < b

\* The quotient (diff * ONE) / ts: integer division truncates.
Ratio_RoundsUp(diff, t) == (diff * ONE + t - 1) \div t
Ratio(diff, t) == (diff * ONE) \div t

\* An evaluation that reads the ledger's live total of the owner at
\* deployment instead of the snapshot it is given.
isRatioPass_LiveTotal(ratio_, cur, prev, t) ==
    LET Ret(b) == [err |-> "none", ret |-> b] IN
    IF Len(cur) # Len(prev) \/ Len(cur) < 2 THEN Ret(FALSE)
    ELSE IF cur[2] = 0 \/ t = 0 \/ t >= THIRTY_DAYS_SECONDS THEN Ret(FALSE)
    ELSE IF totalActions[1] <= prev[1] THEN Ret(FALSE)
    ELSE Ret(((totalActions[1] - prev[1]) * ONE) \div t >= ratio_)

\* isRatioPass under liveness ratio ratio_: [err, ret].  The multiplication
\* is checked, and a division by zero would panic.
isRatioPass(ratio_, cur, prev, t) ==
    LET Ret(b) == [err |-> "none", ret |-> b]
        Panic == [err |-> "Panic", ret |-> FALSE]
    IN
    IF Len(cur) # Len(prev) \/ Len(cur) < 2 THEN Ret(FALSE)
    ELSE IF InactiveFlag(cur) THEN Ret(FALSE)
    ELSE IF ZeroWindow(t) THEN Ret(FALSE)
    ELSE IF TooLongWindow(t) THEN Ret(FALSE)
    ELSE
      LET currentCount == cur[1]
          previousCount == prev[1]
      IN IF NotIncreased(currentCount, previousCount) THEN Ret(FALSE)
         ELSE IF SubUnderflows(currentCount, previousCount) THEN Panic
         ELSE
           LET diff == currentCount - previousCount IN
           IF MulOverflows(diff, ONE) THEN Panic
           ELSE IF t = 0 THEN Panic
           ELSE IF Ratio(diff, t) < ratio_ THEN Ret(FALSE) ELSE Ret(TRUE)

\* computeRequiredActions(periodSeconds): [err, ret].
computeRequiredActions(ratio_, periodSeconds) ==
    IF MulOverflows(ratio_, periodSeconds) THEN [err |-> "Panic", ret |-> 0]
    ELSE [err |-> "none", ret |-> (ratio_ * periodSeconds) \div ONE]

\* transferOwnership(newOwner) of the checker: [err, owner].
transferOwnershipChecker(owner_, sender, newOwner) ==
    IF sender # owner_ THEN [err |-> "NotOwner", owner |-> owner_]
    ELSE IF newOwner = ZERO_ADDRESS THEN [err |-> "ZeroAddress", owner |-> owner_]
    ELSE [err |-> "none", owner |-> newOwner]

\* A change of the ratio that has no check for zero.
changeLivenessRatio_AllowsZero(owner_, ratio_, sender, newLivenessRatio) ==
    IF sender # owner_ THEN [err |-> "NotOwner", livenessRatio |-> ratio_]
    ELSE [err |-> "none", livenessRatio |-> newLivenessRatio]

\* changeLivenessRatio(newLivenessRatio): [err, livenessRatio].
changeLivenessRatio(owner_, ratio_, sender, newLivenessRatio) ==
    IF sender # owner_ THEN [err |-> "NotOwner", livenessRatio |-> ratio_]
    ELSE IF newLivenessRatio = 0 THEN [err |-> "ZeroValue", livenessRatio |-> ratio_]
    ELSE [err |-> "none", livenessRatio |-> newLivenessRatio]

\* ------------------------------------------------------------ checker inputs
\* Liveness ratios: the smallest, one half action per second, the largest.
Ratios == {1, ONE \div 2, MaxWord}
\* Action totals of a snapshot.
Totals == {0, 4, 6, 30000, MaxWord}
Flags == {0, 1}
\* Snapshots: empty, too short, of the two fields, and with a third field.
Snapshots ==
    {<<>>, <<6>>, <<6, 1, 0>>} \cup {<<t, f>> : t \in Totals, f \in Flags}
\* Elapsed times.
Elapsed == {0, 10, 12, THIRTY_DAYS_SECONDS - 1, THIRTY_DAYS_SECONDS, MaxWord}
\* Period lengths: none, one to three seconds, an hour, the largest of the
\* word.
Periods == {0, 1, 2, 3, 3600, MaxWord}

\* ----------------------------------------------------------- checker steps
ledgerVars == <<variant, owner, mainSigner, actionCounts, totalActions, lastActionAt,
                agentActive, actionNoncesUsed, now, credited, successes,
                directWriters>>

\* No isRatioPass call is on record.
NoCall ==
    /\ curNonces' = <<>>
    /\ lastNonces' = <<>>
    /\ tsDelta' = 0
    /\ outcome' = "idle"
    /\ ratioPass' = FALSE

\* The checker is deployed over a freshly deployed self-or-owner ledger.
InitChecker ==
    /\ variant = "A"
    /\ LET S0 == constructorA(1).st IN
       /\ owner = S0.owner
       /\ mainSigner = S0.mainSigner
       /\ actionCounts = S0.counts
       /\ totalActions = S0.total
       /\ lastActionAt = S0.lastAt
       /\ agentActive = S0.active
       /\ actionNoncesUsed = S0.used
       /\ credited = S0.credited
    /\ now = 1
    /\ successes = [n \in Nonces |-> 0]
    /\ directWriters = {}
    /\ \E _livenessRatio \in Ratios \cup {0}, _owner \in Address :
         LET r == constructorChecker(1, _livenessRatio, _owner) IN
         /\ r.err = "none"
         /\ checkerOwner = r.owner
         /\ livenessRatio = r.livenessRatio
    /\ curNonces = <<>>
    /\ lastNonces = <<>>
    /\ tsDelta = 0
    /\ outcome = "idle"
    /\ ratioPass = FALSE
    /\ minActionsPerPeriod = 0
    /\ maxInactivity = 0
    /\ snapAgent = ZERO_ADDRESS
    /\ snapNonces = <<>>

\* A call of the view function isRatioPass; the call and its result are kept.
IsRatioPass(cur, prev, t) ==
    LET r == isRatioPass(livenessRatio, cur, prev, t) IN
    /\ curNonces' = cur
    /\ lastNonces' = prev
    /\ tsDelta' = t
    /\ outcome' = IF r.err = "none" THEN "returned" ELSE r.err
    /\ ratioPass' = r.ret
    /\ UNCHANGED <<checkerOwner, livenessRatio, floorVars, snapVars,
                   ledgerVars>>

\* The owner takes no part in an evaluation: the call on record stays.
TransferOwnershipChecker(c, newOwner) ==
    /\ checkerOwner' = transferOwnershipChecker(checkerOwner, c, newOwner).owner
    /\ UNCHANGED <<livenessRatio, curNonces, lastNonces, tsDelta, outcome, ratioPass,
                   floorVars, snapVars,
                   ledgerVars>>

\* The call on record is the last one under the ratio in force: a change of
\* the ratio clears it.
ChangeLivenessRatio(c, newLivenessRatio) ==
    /\ livenessRatio' =
          changeLivenessRatio(checkerOwner, livenessRatio, c, newLivenessRatio).livenessRatio
    /\ IF livenessRatio' # livenessRatio
       THEN NoCall
       ELSE UNCHANGED <<curNonces, lastNonces, tsDelta, outcome, ratioPass>>
    /\ UNCHANGED <<checkerOwner, floorVars, snapVars,
                   ledgerVars>>

\* A call of the view function computeRequiredActions: it writes nothing.
ComputeRequiredActions(periodSeconds) ==
    /\ computeRequiredActions(livenessRatio, periodSeconds).err \in {"none", "Panic"}
    /\ UNCHANGED vars

NextChecker ==
    \/ \E p \in Periods : ComputeRequiredActions(p)
    \/ \E cur \in Snapshots, prev \in Snapshots, t \in Elapsed : IsRatioPass(cur, prev, t)
    \/ \E c \in Account, n \in Address : TransferOwnershipChecker(c, n)
    \/ \E c \in Account, r \in Ratios \cup {0} : ChangeLivenessRatio(c, r)

SpecChecker == InitChecker /\ [][NextChecker]_vars

\* ------------------------------------------------- the three-field checker
\* The checker of the older deployment, configured with (repository,
\* livenessRatio, minActionsPerPeriod, maxInactivity) and fed snapshots
\* [total, lastActionAt, active flag].  Its tests are in the sources, its
\* code is not: the evaluation follows steps 1 to 11 of the specification.

\* The evaluation without the bound on inactivity.
isRatioPassThreeField_NoInactivity(ratio_, floor_, bound_, evaluationTime, cur, prev, t) ==
    IF Len(cur) # Len(prev) \/ Len(cur) < 3 THEN FALSE
    ELSE IF cur[3] = 0 THEN FALSE
    ELSE IF t = 0 THEN FALSE
    ELSE IF t >= THIRTY_DAYS_SECONDS THEN FALSE
    ELSE IF cur[1] <= prev[1] THEN FALSE
    ELSE LET diff == cur[1] - prev[1] IN
         IF floor_ # 0 /\ diff < floor_ THEN FALSE
         ELSE IF Ratio(diff, t) < ratio_ THEN FALSE
         ELSE TRUE

isRatioPassThreeField(ratio_, floor_, bound_, evaluationTime, cur, prev, t) ==
    IF Len(cur) # Len(prev) \/ Len(cur) < 3 THEN FALSE
    ELSE IF cur[3] = 0 THEN FALSE
    ELSE IF t = 0 THEN FALSE
    ELSE IF t >= THIRTY_DAYS_SECONDS THEN FALSE
    ELSE IF cur[1] <= prev[1] THEN FALSE
    ELSE LET diff == cur[1] - prev[1] IN
         IF floor_ # 0 /\ diff < floor_ THEN FALSE
         ELSE IF Ratio(diff, t) < ratio_ THEN FALSE
         ELSE IF bound_ # 0 /\ (cur[2] = 0 \/ evaluationTime - cur[2] > bound_) THEN FALSE
         ELSE TRUE

\* Configurations: a tenth of and half an action per second; no floor, a
\* floor of one and of three actions; no bound and a bound of five seconds.
ThreeFieldRatios == {ONE \div 10, ONE \div 2}
Floors == {0, 1, 3}
InactivityBounds == {0, 5}
\* Times of evaluation, and times of the last action up to them.
EvaluationTimes == {7, 12}
Stamps == {0, 1, 6, 7}
\* Current snapshots; previous snapshots, one of them of the two-field shape.
CurrentSnapshots ==
    {<<n, s, f>> : n \in {3, 4, 10}, s \in Stamps, f \in Flags} \cup {<<4, 1>>}
PreviousSnapshots == {<<3, 0, 1>>, <<10, 0, 1>>, <<4, 1>>}
ThreeFieldElapsed == {0, 6, 12, THIRTY_DAYS_SECONDS}

\* The three-field checker is deployed over a freshly deployed ledger; it has
\* no owner.
InitThreeField ==
    /\ variant = "A"
    /\ LET S0 == constructorA(1).st IN
       /\ owner = S0.owner
       /\ mainSigner = S0.mainSigner
       /\ actionCounts = S0.counts
       /\ totalActions = S0.total
       /\ lastActionAt = S0.lastAt
       /\ agentActive = S0.active
       /\ actionNoncesUsed = S0.used
       /\ credited = S0.credited
    /\ now \in EvaluationTimes
    /\ successes = [n \in Nonces |-> 0]
    /\ directWriters = {}
    /\ checkerOwner = ZERO_ADDRESS
    /\ livenessRatio \in ThreeFieldRatios
    /\ minActionsPerPeriod \in Floors
    /\ maxInactivity \in InactivityBounds
    /\ snapAgent = ZERO_ADDRESS
    /\ snapNonces = <<>>
    /\ curNonces = <<>>
    /\ lastNonces = <<>>
    /\ tsDelta = 0
    /\ outcome = "idle"
    /\ ratioPass = FALSE

\* A call of isRatioPass of the three-field checker at the time on the clock.
IsRatioPassThreeField(cur, prev, t) ==
    /\ curNonces' = cur
    /\ lastNonces' = prev
    /\ tsDelta' = t
    /\ outcome' = "returned"
    /\ ratioPass' = isRatioPassThreeField(livenessRatio, minActionsPerPeriod,
                                          maxInactivity, now, cur, prev, t)
    /\ UNCHANGED <<checkerOwner, livenessRatio, floorVars, snapVars,
                   ledgerVars>>

NextThreeField ==
    \E cur \in CurrentSnapshots, prev \in PreviousSnapshots, t \in ThreeFieldElapsed :
        IsRatioPassThreeField(cur, prev, t)

SpecThreeField == InitThreeField /\ [][NextThreeField]_vars

\* ------------------------------------------------- snapshots of the ledger
\* A call of the view function getMultisigNonces: the snapshot is kept, the
\* storage of both contracts is not written.
GetMultisigNonces(agent) ==
    /\ snapAgent' = agent
    /\ snapNonces' = getMultisigNonces(Storage, agent)
    /\ UNCHANGED <<checkerOwner, livenessRatio, curNonces, lastNonces, tsDelta, outcome,
                   ratioPass, floorVars, ledgerVars>>

\* The checker with the smallest ratio over its ledger.
InitSnapshots == InitChecker /\ checkerOwner = 1 /\ livenessRatio = 1

\* The ledger's operations and the clock, with snapshots taken in between.
NextSnapshots ==
    \/ Tick
    \/ \E c \in Account, n \in Address : TransferOwnership(c, n)
    \/ \E c \in Account, a \in Address, b \in BOOLEAN : SetAgentStatus(c, a, b)
    \/ \E c \in Account, a \in Address, t \in ActionTypes, m \in Amounts :
          RecordAction(c, a, t, m)
    \/ \E c \in Account, t \in ActionTypes, m \in Amounts : RecordActionForSelf(c, t, m)
    \/ \E c \in Account, a \in Address, b \in BatchInputs :
          RecordActionsBatch(c, a, b[1], b[2])
    \/ \E a \in Account : GetMultisigNonces(a)

SpecSnapshots == InitSnapshots /\ [][NextSnapshots]_vars

\* ------------------------------------------------- ledger and checker together
\* The batches submitted next to the checker: the empty one, those of one
\* entry, and the mismatched ones of at most one entry.
SystemBatches == {b \in BatchInputs : Len(b[1]) + Len(b[2]) <= 2}

\* The checker next to its self-or-owner ledger: the clock, every ledger
\* operation, the checker's administration, and evaluations of the snapshot
\* of an agent against the empty snapshot of a fresh ledger, over the time on
\* the clock.
NextSystem ==
    \/ Tick
    \/ \E c \in Account, n \in Address : TransferOwnership(c, n)
    \/ \E c \in Account, a \in Address, b \in BOOLEAN : SetAgentStatus(c, a, b)
    \/ \E c \in Account, a \in Address, t \in ActionTypes, m \in Amounts :
          RecordAction(c, a, t, m)
    \/ \E c \in Account, t \in ActionTypes, m \in Amounts : RecordActionForSelf(c, t, m)
    \/ \E c \in Account, a \in Address, b \in SystemBatches :
          RecordActionsBatch(c, a, b[1], b[2])
    \/ \E a \in Account : IsRatioPass(getMultisigNonces(Storage, a), <<0, 0>>, now)
    \/ \E c \in Account, n \in Address : TransferOwnershipChecker(c, n)
    \/ \E c \in Account, r \in Ratios \cup {0} : ChangeLivenessRatio(c, r)

SpecSystem == InitChecker /\ [][NextSystem]_vars


\* ================================================================== claims
RECURSIVE SumOver(_, _)
SumOver(f, D) ==
    IF D = {} THEN 0
    ELSE LET x == CHOOSE y \in D : TRUE IN f[x] + SumOver(f, D \ {x})

\* C1: in every reachable state of either ledger, for every agent the
\* aggregate counter equals the sum of the agent's per-type counters.
C1_TotalIsSum ==
    \A a \in Address : totalActions[a] = SumOver(actionCounts[a], ActionTypes)

\* An agent with actions of two types and no room left in its total.
C1_Witness ==
    \E a \in Account :
        /\ \A t \in ActionTypes : actionCounts[a][t] > 0
        /\ totalActions[a] = MaxUint

\* C2: no step of either ledger decreases the aggregate counter of an agent
\* or any of its per-type counters.
C2_CountersNeverDecrease ==
    [][\A a \in Address :
          /\ totalActions'[a] >= totalActions[a]
          /\ \A t \in ActionTypes : actionCounts'[a][t] >= actionCounts[a][t]]_vars

\* A counter that has reached the largest value of its type.
C2_Witness ==
    \E a \in Account, t \in ActionTypes : actionCounts[a][t] = MaxUint

\* C3: in the signature-verified ledger at most one verifyAndConsumeAction
\* call per nonce succeeds, and a consumed nonce stays consumed.
C3_NonceUsedOnce ==
    /\ [](\A n \in Nonces : successes[n] <= 1)
    /\ [][actionNoncesUsed \subseteq actionNoncesUsed']_vars

\* Every nonce has been consumed by one successful call.
C3_Witness ==
    /\ variant = "B"
    /\ actionNoncesUsed = Nonces
    /\ \A n \in Nonces : successes[n] = 1


\* ---------------------------------------------- calls in the current state
\* The signature-verified calls that can be submitted: caller, payload, signature.
VerifyCalls ==
    UNION {{<<x[1], x[2], x[3], x[4], sig>> : sig \in SigInputs(x[2], x[3], x[4])} :
              x \in Account \X ActionIds \X Nonces \X SignedTimes}

\* Outcome of the call x of VerifyCalls in storage S.
VerifyOutcome(S, x) == verifyAndConsumeAction(S, x[1], x[2], x[3], x[4], x[5], now)

\* What ECDSA recovery yields for the call x.
Recovered(x) == verifyAction(x[2], x[3], x[4], x[5])

\* The call x carries a signature of mainSigner over its own payload.
SignedByMainSigner(x) == Recovered(x).err = "none" /\ Recovered(x).ret = mainSigner

\* The record the ledger keeps of an agent in storage S.
Record(S, a) ==
    [counts |-> S.counts[a], total |-> S.total[a], lastAt |-> S.lastAt[a],
     active |-> S.active[a]]

\* C4: in the signature-verified ledger a call with a consumed nonce fails
\* with NonceAlreadyUsed whatever its action id, timestamp and signature are,
\* also when the signature is malformed or recovers to another address.
C4_UsedNonceRejected ==
    variant = "B" =>
        \A x \in VerifyCalls :
            x[3] \in actionNoncesUsed =>
                VerifyOutcome(Storage, x).err = "NonceAlreadyUsed"

\* A consumed nonce is submitted again, once with a malformed signature and
\* once with a signature of another address, and is rejected as used.
C4_Witness ==
    /\ variant = "B"
    /\ \E x \in VerifyCalls, y \in VerifyCalls :
        /\ x[3] \in actionNoncesUsed /\ y[3] \in actionNoncesUsed
        /\ Recovered(x).err # "none"
        /\ Recovered(y).err = "none" /\ Recovered(y).ret # mainSigner
        /\ VerifyOutcome(Storage, x).err = "NonceAlreadyUsed"
        /\ VerifyOutcome(Storage, y).err = "NonceAlreadyUsed"

\* In storage S every call with the nonce and a signature of mainSigner is
\* accepted: it passes the nonce and signature checks, and it credits the
\* action unless the total of mainSigner is at the largest value of its type.
ValidCallAccepted(S, nonce) ==
    \A c \in Account, actionId \in ActionIds, timestamp \in SignedTimes :
        LET r2 == verifyAndConsumeAction(S, c, actionId, nonce, timestamp,
                      SignatureOf(S.mainSigner, actionId, nonce, timestamp), now)
        IN /\ r2.err \in {"none", "Panic"}
           /\ S.total[S.mainSigner] < MaxUint => r2.err = "none"

\* In storage S every call with the nonce and a signature of mainSigner
\* succeeds.
ValidCallSucceeds(S, nonce) ==
    \A c \in Account, actionId \in ActionIds, timestamp \in SignedTimes :
        verifyAndConsumeAction(S, c, actionId, nonce, timestamp,
            SignatureOf(S.mainSigner, actionId, nonce, timestamp), now).err = "none"

C6_NonceCreditPairing ==
    variant = "B" =>
        /\ \A n \in Nonces : successes[n] = (IF n \in actionNoncesUsed THEN 1 ELSE 0)
        /\ Cardinality(actionNoncesUsed) = SumOver(successes, Nonces)
        /\ credited = Cardinality(actionNoncesUsed)
        /\ totalActions[mainSigner] >= credited

\* One nonce consumed, one action credited to a signer who is not the owner.
C6_Witness ==
    /\ variant = "B"
    /\ Cardinality(actionNoncesUsed) = 1
    /\ credited = 1
    /\ owner # mainSigner
    /\ totalActions[mainSigner] = 1

\* What a successful verified call x must have done to storage S: one action
\* of type bytes32(actionId) credited to mainSigner at the current time, the
\* caller's own record untouched when the caller is not mainSigner.
VerifiedCredit(S, x, r) ==
    LET S2 == Tx(S, r)
        ms == S.mainSigner
        t == ToBytes32(x[2])
    IN /\ r.err = "none"
       /\ S2.counts[ms][t] = S.counts[ms][t] + 1
       /\ \A u \in ActionTypes \ {t} : S2.counts[ms][u] = S.counts[ms][u]
       /\ S2.total[ms] = S.total[ms] + 1
       /\ S2.lastAt[ms] = now
       /\ S2.active[ms]
       /\ r.ret = S2.counts[ms][t]
       /\ x[1] # ms => Record(S2, x[1]) = Record(S, x[1])

\* C7 as stated: every call with an unused nonce and a signature of mainSigner
\* succeeds, whoever submits it, and credits mainSigner.
C7_AlwaysSucceeds ==
    variant = "B" =>
        \A x \in VerifyCalls :
            (x[3] \notin actionNoncesUsed /\ SignedByMainSigner(x)) =>
                VerifiedCredit(Storage, x, VerifyOutcome(Storage, x))

\* C7 (amended): a call with an unused nonce and a signature of mainSigner
\* succeeds for every caller and credits mainSigner, not the caller, provided
\* the total of mainSigner is below the largest value of its type; at that
\* value the checked addition aborts the call and nothing changes.
C7_SucceedsUnlessOverflow ==
    variant = "B" =>
        \A x \in VerifyCalls :
            (x[3] \notin actionNoncesUsed /\ SignedByMainSigner(x)) =>
                LET r == VerifyOutcome(Storage, x) IN
                IF totalActions[mainSigner] < MaxUint
                THEN VerifiedCredit(Storage, x, r)
                ELSE r.err = "Panic" /\ Tx(Storage, r) = Storage

\* A verified action was credited to mainSigner in the current block, after
\* the clock had advanced, while the other account, the owner, has no record.
C7_Witness ==
    /\ variant = "B"
    /\ owner # mainSigner
    /\ credited >= 1
    /\ now = MaxTime
    /\ lastActionAt[mainSigner] = now
    /\ agentActive[mainSigner]
    /\ totalActions[owner] = 0


\* ------------------------------------------------------------ batches
RECURSIVE SumSeq(_)
SumSeq(q) == IF q = <<>> THEN 0 ELSE Head(q) + SumSeq(Tail(q))

\* The batches of equal lengths that contain a zero amount.
ZeroBatches == {b \in EqualBatches : \E i \in 1..Len(b[2]) : b[2][i] = 0}

\* Index of the first zero amount of a batch of ZeroBatches.
FirstZero(amounts) ==
    CHOOSE i \in 1..Len(amounts) :
        amounts[i] = 0 /\ \A k \in 1..(i - 1) : amounts[k] # 0

\* The caller c passes the access check of the recording calls for agent a.
MayRecord(c, a) ==
    IF variant = "A" THEN onlyOwnerOrAgent(Storage, c, a) ELSE c = owner /\ a = c

\* The batch calls that get past the access, address and length checks with
\* a zero amount in the batch: caller, agent, batch.
ZeroBatchCalls ==
    IF variant = "A"
    THEN {x \in Account \X Account \X ZeroBatches : onlyOwnerOrAgent(Storage, x[1], x[2])}
    ELSE {x \in Account \X Account \X ZeroBatches : x[1] = owner /\ x[2] = x[1]}

BatchOutcome(x) ==
    IF variant = "A"
    THEN recordActionsBatch(Storage, x[1], x[2], x[3][1], x[3][2], now)
    ELSE recordActionsBatchB(Storage, x[1], x[3][1], x[3][2], now)

\* C8 as stated: every batch with a zero amount fails with ZeroAmount and
\* changes nothing.
C8_ZeroAmountAlways ==
    \A x \in ZeroBatchCalls :
        LET r == BatchOutcome(x) IN
        r.err = "ZeroAmount" /\ Tx(Storage, r) = Storage

\* C8 (amended): a batch with a zero amount at any position never changes the
\* ledger; it fails with ZeroAmount, unless the items before the first zero
\* take the agent's total past the largest value of its type, in which case
\* the checked addition aborts the call first.
C8_ZeroBatchChangesNothing ==
    \A x \in ZeroBatchCalls :
        LET r == BatchOutcome(x)
            amounts == x[3][2]
            before == SubSeq(amounts, 1, FirstZero(amounts) - 1)
        IN /\ Tx(Storage, r) = Storage
           /\ r.err = IF totalActions[x[2]] + SumSeq(before) > MaxUint
                      THEN "Panic" ELSE "ZeroAmount"

\* An agent with recorded actions submits batches with the zero first, last
\* and between two valid items; each fails with ZeroAmount, the later two
\* after the loop had already written a counter.
C8_Witness ==
    \E c \in Account :
        LET Out(amounts) == BatchOutcome(<<c, c, <<AllOnes(Len(amounts)), amounts>> >>) IN
        /\ MayRecord(c, c)
        /\ totalActions[c] > 0
        /\ Out(<<0, 1>>).err = "ZeroAmount" /\ Out(<<0, 1>>).st = Storage
        /\ Out(<<1, 0>>).err = "ZeroAmount" /\ Out(<<1, 0>>).st # Storage
        /\ Out(<<1, 0, 1>>).err = "ZeroAmount" /\ Out(<<1, 0, 1>>).st # Storage

\* ------------------------------------------------------ every call
\* P holds of the outcome of every call the caller c can make on the
\* self-or-owner ledger in the current state.
AllOutcomesA(c, P(_)) ==
    /\ \A a \in Address, t \in ActionTypes, m \in Amounts :
          P(recordAction(Storage, c, a, t, m, now))
    /\ \A t \in ActionTypes, m \in Amounts :
          P(recordActionForSelf(Storage, c, t, m, now))
    /\ \A a \in Address, b \in BatchInputs :
          P(recordActionsBatch(Storage, c, a, b[1], b[2], now))
    /\ \A a \in Address, f \in BOOLEAN : P(setAgentStatus(Storage, c, a, f))
    /\ \A n \in Address : P(transferOwnership(Storage, c, n))

\* The same for the signature-verified ledger.
AllOutcomesB(c, P(_)) ==
    /\ \A n \in Address : P(transferOwnershipB(Storage, c, n))
    /\ P(renounceOwnership(Storage, c))
    /\ \A t \in ActionTypes, m \in Amounts : P(recordActionB(Storage, c, t, m, now))
    /\ \A b \in BatchInputs :
          P(recordActionsBatchB(Storage, c, b[1], b[2], now))
    /\ \A x \in VerifyCalls : x[1] = c => P(VerifyOutcome(Storage, x))

AllOutcomes(c, P(_)) ==
    IF variant = "A" THEN AllOutcomesA(c, P) ELSE AllOutcomesB(c, P)

\* A failed call leaves the storage as it was.
FailsWithoutChange(r) == r.err # "none" => Tx(Storage, r) = Storage

RecordOutcome(c, a, t, m) ==
    IF variant = "A" THEN recordAction(Storage, c, a, t, m, now)
    ELSE recordActionB(Storage, c, t, m, now)

C10_OnlyAgentOrOwner ==
    variant = "A" =>
        /\ \A c \in Account, a \in Address :
              (c # a /\ c # owner) =>
                /\ \A t \in ActionTypes, m \in Amounts :
                      LET r == recordAction(Storage, c, a, t, m, now) IN
                      r.err = "NotAuthorized" /\ Tx(Storage, r) = Storage
                /\ \A b \in BatchInputs :
                      LET r == recordActionsBatch(Storage, c, a, b[1], b[2], now) IN
                      r.err = "NotAuthorized" /\ Tx(Storage, r) = Storage
                /\ \A f \in BOOLEAN :
                      LET r == setAgentStatus(Storage, c, a, f) IN
                      r.err = "NotAuthorized" /\ Tx(Storage, r) = Storage
        /\ \A c \in Account, X \in Address :
              (c # X /\ c # owner) =>
                LET KeepsX(r) == Record(Tx(Storage, r), X) = Record(Storage, X)
                IN AllOutcomesA(c, KeepsX)

\* The owner has recorded actions and is active; the other account, which has
\* a record of its own, is refused when it records for the owner or
\* deactivates the owner.
C10_Witness ==
    /\ variant = "A"
    /\ \E c \in Account :
        /\ c # owner
        /\ totalActions[c] > 0
        /\ totalActions[owner] > 0
        /\ agentActive[owner]
        /\ recordAction(Storage, c, owner, 1, 1, now).err = "NotAuthorized"
        /\ setAgentStatus(Storage, c, owner, FALSE).err = "NotAuthorized"


\* C11: in the self-or-owner ledger a successful recordAction(agent,
\* actionType, amount) has amount > 0, adds exactly amount to the agent's
\* count of that type and to the agent's total, sets lastActionAt to the
\* current time and the active flag to true (also for an agent that had been
\* set inactive), leaves the agent's other action types alone and returns the
\* new count.
C11_RecordActionEffect ==
    variant = "A" =>
        \A c \in Account, a \in Address, t \in ActionTypes, m \in Amounts :
            LET r == recordAction(Storage, c, a, t, m, now)
                S2 == Tx(Storage, r)
            IN r.err = "none" =>
                /\ m > 0
                /\ S2.counts[a][t] = actionCounts[a][t] + m
                /\ S2.total[a] = totalActions[a] + m
                /\ S2.lastAt[a] = now
                /\ S2.active[a] = TRUE
                /\ \A u \in ActionTypes \ {t} : S2.counts[a][u] = actionCounts[a][u]
                /\ r.ret = S2.counts[a][t]

\* An agent with recorded actions that was set inactive at an earlier time
\* records one more action of another type, and the call succeeds.
C11_Witness ==
    /\ variant = "A"
    /\ \E a \in Account, t \in ActionTypes :
        /\ actionCounts[a][t] > 0
        /\ ~agentActive[a]
        /\ lastActionAt[a] < now
        /\ \E u \in ActionTypes \ {t} :
              recordAction(Storage, a, a, u, 1, now).err = "none"


\* C12 as stated: in the self-or-owner ledger recordAction with the zero
\* address as agent fails with ZeroAddress for every caller and changes
\* nothing.
C12_ZeroAddressForEveryCaller ==
    variant = "A" =>
        \A c \in Account, t \in ActionTypes, m \in Amounts :
            LET r == recordAction(Storage, c, ZERO_ADDRESS, t, m, now) IN
            r.err = "ZeroAddress" /\ Tx(Storage, r) = Storage

\* C12 (amended): in the self-or-owner ledger recordAction with the zero
\* address as agent always fails and changes nothing; it fails with
\* ZeroAddress when the caller is the owner, whatever the amount, and with
\* NotAuthorized for every other caller, whom the access check stops first.
C12_ZeroAddressRejected ==
    variant = "A" =>
        \A c \in Account, t \in ActionTypes, m \in Amounts :
            LET r == recordAction(Storage, c, ZERO_ADDRESS, t, m, now) IN
            /\ r.err = IF c = owner THEN "ZeroAddress" ELSE "NotAuthorized"
            /\ Tx(Storage, r) = Storage

\* Both accounts have records; the owner's call for the zero address fails
\* with ZeroAddress, the other account's with NotAuthorized.
C12_Witness ==
    /\ variant = "A"
    /\ \A c \in Account : totalActions[c] > 0
    /\ \E c \in Account, d \in Account :
        /\ c = owner /\ d # owner
        /\ recordAction(Storage, c, ZERO_ADDRESS, 1, 0, now).err = "ZeroAddress"
        /\ recordAction(Storage, c, ZERO_ADDRESS, 1, 1, now).err = "ZeroAddress"
        /\ recordAction(Storage, d, ZERO_ADDRESS, 1, 1, now).err = "NotAuthorized"


\* C13: in the self-or-owner ledger an empty batch by a caller that passes
\* the access check, for a non-zero agent, succeeds, returns 0 and leaves the
\* whole storage as it was; and a successful batch changes lastActionAt and
\* the active flag only when it added something (then it sets them to the
\* current time and true).
C13_EmptyBatchNoOp ==
    variant = "A" =>
        \A c \in Account, a \in Account :
            onlyOwnerOrAgent(Storage, c, a) =>
                /\ LET r == recordActionsBatch(Storage, c, a, <<>>, <<>>, now) IN
                   r.err = "none" /\ r.ret = 0 /\ r.st = Storage
                /\ \A b \in BatchInputs :
                      LET r == recordActionsBatch(Storage, c, a, b[1], b[2], now) IN
                      r.err = "none" =>
                        /\ r.ret = SumSeq(b[2])
                        /\ IF r.ret > 0
                           THEN r.st.lastAt[a] = now /\ r.st.active[a] = TRUE
                           ELSE r.st = Storage

\* At a later time the owner has an agent that was set inactive after it
\* recorded actions, and an agent never seen; an empty batch for either
\* succeeds.
C13_Witness ==
    /\ variant = "A"
    /\ now = MaxTime
    /\ \E a \in Account, n \in Account :
        /\ totalActions[a] > 0 /\ ~agentActive[a] /\ lastActionAt[a] < now
        /\ totalActions[n] = 0 /\ ~agentActive[n] /\ lastActionAt[n] = 0
        /\ recordActionsBatch(Storage, owner, a, <<>>, <<>>, now).err = "none"
        /\ recordActionsBatch(Storage, owner, n, <<>>, <<>>, now).err = "none"


\* C14: in the self-or-owner ledger setAgentStatus(agent, active) by the
\* owner or by the agent itself succeeds and writes the given value into the
\* agent's active flag, whatever the agent's counters and last action time
\* are; every counter, total and lastActionAt, every other agent's flag, the
\* owner and everything else stay as they were.
C14_SetAgentStatusOverwrites ==
    variant = "A" =>
        \A c \in Account, a \in Account, f \in BOOLEAN :
            onlyOwnerOrAgent(Storage, c, a) =>
                LET r == setAgentStatus(Storage, c, a, f) IN
                /\ r.err = "none"
                /\ r.st = [Storage EXCEPT !.active[a] = f]

\* An agent that recorded an action at the current time is inactive, and an
\* agent without any action is active: both flags were written by
\* setAgentStatus against the agent's activity.
C14_Witness ==
    /\ variant = "A"
    /\ \E a \in Account, n \in Account :
        /\ totalActions[a] > 0 /\ lastActionAt[a] = now /\ ~agentActive[a]
        /\ totalActions[n] = 0 /\ lastActionAt[n] = 0 /\ agentActive[n]


\* ------------------------------------------------------ one agent per write
\* The record a never-seen agent reads as.
EmptyRecord ==
    [counts |-> [t \in ActionTypes |-> 0], total |-> 0, lastAt |-> 0, active |-> FALSE]

\* The agents whose record differs between the two ends of a step.
ChangedAgents ==
    {a \in Address :
        \/ actionCounts'[a] # actionCounts[a]
        \/ totalActions'[a] # totalActions[a]
        \/ lastActionAt'[a] # lastActionAt[a]
        \/ agentActive'[a] # agentActive[a]}

\* The successful call with outcome r, targeting agent X, left the record of
\* every other agent as it was.
OnlyTargetWritten(r, X) ==
    r.err = "none" => \A Y \in Address \ {X} : Record(r.st, Y) = Record(Storage, Y)

\* Every call that can be made in the current state writes at most the
\* record of its target: the agent argument in the self-or-owner ledger, the
\* caller of recordAction and recordActionsBatch and the main signer of
\* verifyAndConsumeAction in the signature-verified one.
WritesOnlyTarget ==
    IF variant = "A"
    THEN \A c \in Account, a \in Address :
            /\ \A t \in ActionTypes, m \in Amounts :
                  OnlyTargetWritten(recordAction(Storage, c, a, t, m, now), a)
            /\ \A b \in BatchInputs :
                  OnlyTargetWritten(recordActionsBatch(Storage, c, a, b[1], b[2], now), a)
            /\ \A f \in BOOLEAN :
                  OnlyTargetWritten(setAgentStatus(Storage, c, a, f), a)
            /\ \A t \in ActionTypes, m \in Amounts :
                  OnlyTargetWritten(recordActionForSelf(Storage, c, t, m, now), c)
    ELSE \A c \in Account :
            /\ \A t \in ActionTypes, m \in Amounts :
                  OnlyTargetWritten(recordActionB(Storage, c, t, m, now), c)
            /\ \A b \in BatchInputs :
                  OnlyTargetWritten(recordActionsBatchB(Storage, c, b[1], b[2], now), c)
            /\ \A x \in VerifyCalls :
                  x[1] = c => OnlyTargetWritten(VerifyOutcome(Storage, x), mainSigner)

\* C15: in both ledgers every agent starts with the empty record (total 0,
\* every count 0, lastActionAt 0, inactive); every successful recordAction,
\* recordActionsBatch, verifyAndConsumeAction and setAgentStatus leaves the
\* record of every agent other than its target unchanged; and no step
\* changes the records of two agents.
C15_OneAgentPerWrite ==
    /\ \A a \in Address : Record(Storage, a) = EmptyRecord
    /\ [] WritesOnlyTarget
    /\ [][Cardinality(ChangedAgents) <= 1]_vars

\* Two agents have records that differ in every field; the zero address still
\* reads as never seen.
C15_Witness ==
    /\ \E X \in Account, Y \in Account :
        /\ totalActions[X] > totalActions[Y] /\ totalActions[Y] > 0
        /\ actionCounts[X] # actionCounts[Y]
        /\ lastActionAt[X] # lastActionAt[Y]
        /\ agentActive[X] # agentActive[Y]
    /\ Record(Storage, ZERO_ADDRESS) = EmptyRecord


\* ============================================== claims: activity checker
\* The difference of the totals of the call on record.
Delta == curNonces[1] - lastNonces[1]

\* The call on record got past the guards on the shape of the snapshots, the
\* active flag, the time delta and the order of the totals.
PastGuards ==
    /\ outcome # "idle"
    /\ Len(curNonces) = Len(lastNonces) /\ Len(curNonces) >= 2
    /\ curNonces[2] # 0
    /\ 0 < tsDelta /\ tsDelta < THIRTY_DAYS_SECONDS
    /\ curNonces[1] > lastNonces[1]

\* C16: isRatioPass never raises an error: every call, whatever the
\* snapshots and the time delta, returns a boolean, also when
\* (cur[0] - prev[0]) * 10^18 does not fit the machine word.
C16_NeverRaises == outcome \in {"idle", "returned"}

\* C17: whenever isRatioPass returns true, (cur[0] - prev[0]) * 10^18 >=
\* livenessRatio * ts holds in exact arithmetic: truncation never turns a
\* throughput below the liveness ratio into a pass.
C17_NoFalsePositive ==
    (outcome = "returned" /\ ratioPass) =>
        /\ PastGuards
        /\ Delta * ONE >= livenessRatio * tsDelta

\* A call returned true although the division truncated.
C17_Witness ==
    /\ outcome = "returned" /\ ratioPass
    /\ (Delta * ONE) % tsDelta # 0
    /\ (Delta * ONE) \div tsDelta = livenessRatio

C19_InactiveNeverPasses ==
    (outcome # "idle" /\ Len(curNonces) >= 2 /\ curNonces[2] = 0) =>
        outcome = "returned" /\ ratioPass = FALSE

\* An inactive snapshot was evaluated whose totals and time delta satisfy
\* the smallest liveness ratio.
C19_Witness ==
    /\ outcome = "returned" /\ ~ratioPass
    /\ Len(curNonces) = 2 /\ Len(lastNonces) = 2 /\ curNonces[2] = 0
    /\ tsDelta = 10 /\ livenessRatio = 1
    /\ Delta >= 6

\* C20: isRatioPass(cur, prev, 0) returns false for all snapshots: the
\* division is never reached with a zero divisor.
C20_ZeroWindowNeverPasses ==
    (outcome # "idle" /\ tsDelta = 0) => outcome = "returned" /\ ratioPass = FALSE

\* Active snapshots of equal length with increasing totals were evaluated
\* over a zero time delta.
C20_Witness ==
    /\ outcome = "returned" /\ ~ratioPass
    /\ tsDelta = 0
    /\ Len(curNonces) = 2 /\ Len(lastNonces) = 2 /\ curNonces[2] = 1
    /\ curNonces[1] > lastNonces[1]

\* C21: for every time delta ts >= 2,592,000 isRatioPass returns false,
\* whatever the snapshots are and also when the totals would satisfy the
\* liveness ratio; a time delta of 2,591,999 is not cut off: past the other
\* guards the result is then decided by the ratio alone.
C21_MonthOrMoreNeverPasses ==
    /\ (outcome # "idle" /\ tsDelta >= THIRTY_DAYS_SECONDS) =>
          outcome = "returned" /\ ratioPass = FALSE
    /\ (PastGuards /\ tsDelta = THIRTY_DAYS_SECONDS - 1 /\ outcome = "returned") =>
          ratioPass = ((Delta * ONE) \div tsDelta >= livenessRatio)

\* Active snapshots whose totals satisfy the liveness ratio over thirty days
\* were evaluated over exactly thirty days and failed, and the same
\* snapshots passed one second below.
C21_Witness ==
    /\ outcome = "returned" /\ livenessRatio = 1
    /\ Len(curNonces) = 2 /\ Len(lastNonces) = 2 /\ curNonces[2] = 1
    /\ Delta = 30000
    /\ tsDelta = THIRTY_DAYS_SECONDS /\ ~ratioPass
    /\ isRatioPass(livenessRatio, curNonces, lastNonces, THIRTY_DAYS_SECONDS - 1).ret

\* C22: isRatioPass returns false whenever cur[0] <= prev[0], so the
\* subtraction cur[0] - prev[0] never underflows; and of isRatioPass(a, b, ts)
\* and isRatioPass(b, a, ts) at most one is true: a call that passed does not
\* pass with its snapshots swapped.
C22_NonIncreasingNeverPasses ==
    /\ (/\ outcome # "idle"
        /\ Len(curNonces) >= 1 /\ Len(lastNonces) >= 1
        /\ curNonces[1] <= lastNonces[1]) =>
            outcome = "returned" /\ ratioPass = FALSE
    /\ (outcome = "returned" /\ ratioPass) =>
          LET swapped == isRatioPass(livenessRatio, lastNonces, curNonces, tsDelta)
          IN swapped.err = "none" /\ swapped.ret = FALSE

\* Active snapshots were evaluated in the wrong order and failed, though in
\* the right order they pass.
C22_Witness ==
    /\ outcome = "returned" /\ ~ratioPass
    /\ Len(curNonces) = 2 /\ Len(lastNonces) = 2 /\ curNonces[2] = 1
    /\ curNonces[1] < lastNonces[1]
    /\ 0 < tsDelta /\ tsDelta < THIRTY_DAYS_SECONDS
    /\ isRatioPass(livenessRatio, lastNonces, curNonces, tsDelta).ret

\* The evaluation of snapshots cur and prev over time delta t in the current
\* state.
Evaluation(cur, prev, t) == isRatioPass(livenessRatio, cur, prev, t)

C24_FloorWithoutFailure ==
    \A p \in Periods :
        LET r == computeRequiredActions(livenessRatio, p) IN
        /\ r.err = "none"
        /\ r.ret * ONE <= livenessRatio * p
        /\ livenessRatio * p < (r.ret + 1) * ONE

\* C25: computeRequiredActions(periodSeconds) is the minimum number of
\* actions that satisfies the liveness ratio over the period: for
\* 0 < periodSeconds < 2,592,000, an active agent whose total grew by exactly
\* that number (when it is > 0) within periodSeconds passes isRatioPass, and
\* a growth of one action less does not pass.
C25_RequiredActionsAreTheMinimum ==
    \A p \in Periods :
        LET r == computeRequiredActions(livenessRatio, p) IN
        (0 < p /\ p < THIRTY_DAYS_SECONDS /\ r.err = "none" /\ r.ret > 0) =>
            /\ Evaluation(<<r.ret, 1>>, <<0, 1>>, p) = [err |-> "none", ret |-> TRUE]
            /\ Evaluation(<<r.ret - 1, 1>>, <<0, 1>>, p) = [err |-> "none", ret |-> FALSE]

\* The outcome of changeLivenessRatio(newLivenessRatio) sent by c in the
\* current state.
RatioChange(c, newLivenessRatio) ==
    changeLivenessRatio(checkerOwner, livenessRatio, c, newLivenessRatio)

\* C26: changeLivenessRatio(newRatio) succeeds only for the checker's current
\* owner and only for newRatio > 0, and then stores newRatio; otherwise it
\* fails with NotOwner (only for another sender) or ZeroValue (only for a zero
\* ratio) and leaves livenessRatio as it was.  The constructor rejects a zero
\* ratio, and livenessRatio is strictly positive in every reachable state.
C26_RatioPositiveOwnerGated ==
    /\ livenessRatio > 0
    /\ \A o \in Address : constructorChecker(1, 0, o).err \in {"ZeroValue", "ZeroAddress"}
    /\ \A c \in Account, r \in Ratios \cup {0} :
         LET x == RatioChange(c, r) IN
         /\ (x.err = "none") = (c = checkerOwner /\ r > 0)
         /\ x.err \in {"none", "NotOwner", "ZeroValue"}
         /\ x.err = "NotOwner" => c # checkerOwner
         /\ x.err = "ZeroValue" => r = 0
         /\ x.livenessRatio = IF x.err = "none" THEN r ELSE livenessRatio

\* An evaluation passed under the ratio in force; the owner's call for the
\* largest ratio succeeds and makes that evaluation fail, the owner's call for
\* zero fails with ZeroValue and the other account's calls with NotOwner.
C26_Witness ==
    /\ outcome = "returned" /\ ratioPass
    /\ \E c \in Account, d \in Account :
         /\ c = checkerOwner /\ d # checkerOwner
         /\ RatioChange(c, MaxWord).err = "none"
         /\ ~isRatioPass(RatioChange(c, MaxWord).livenessRatio,
                         curNonces, lastNonces, tsDelta).ret
         /\ RatioChange(c, 0).err = "ZeroValue"
         /\ RatioChange(d, MaxWord).err = "NotOwner"
         /\ RatioChange(d, 0).err = "NotOwner"

\* The outcome of the checker's transferOwnership(newOwner) sent by c in the
\* current state.
OwnerChange(c, newOwner) == transferOwnershipChecker(checkerOwner, c, newOwner)

\* transferOwnership of both contracts succeeds exactly for the current owner
\* with a non-zero target, and otherwise fails with NotOwner or ZeroAddress
\* and leaves the owner as it was.
TransferIsOwnerGated ==
    \A c \in Account, n \in Address :
        LET l == transferOwnership(Storage, c, n)
            k == OwnerChange(c, n)
        IN /\ (l.err = "none") = (c = owner /\ n # ZERO_ADDRESS)
           /\ (k.err = "none") = (c = checkerOwner /\ n # ZERO_ADDRESS)
           /\ l.err \in {"none", "NotOwner", "ZeroAddress"}
           /\ k.err \in {"none", "NotOwner", "ZeroAddress"}
           /\ l.err = "NotOwner" => c # owner
           /\ k.err = "NotOwner" => c # checkerOwner
           /\ l.err = "ZeroAddress" => n = ZERO_ADDRESS
           /\ k.err = "ZeroAddress" => n = ZERO_ADDRESS
           /\ l.st.owner = IF l.err = "none" THEN n ELSE owner
           /\ k.owner = IF k.err = "none" THEN n ELSE checkerOwner

\* An account that is not the ledger's owner is refused by transferOwnership
\* and by every write to the record of another agent; the owner's writes to
\* the records of others pass (a write of an action fails only when a counter
\* has no room left).
LedgerOwnerOnly ==
    \A c \in Account, a \in Account :
        /\ c # owner => \A n \in Address : transferOwnership(Storage, c, n).err = "NotOwner"
        /\ (c # owner /\ a # c) =>
             /\ \A b \in BOOLEAN : setAgentStatus(Storage, c, a, b).err = "NotAuthorized"
             /\ \A t \in ActionTypes, m \in Amounts :
                  recordAction(Storage, c, a, t, m, now).err = "NotAuthorized"
             /\ \A b \in SystemBatches :
                  recordActionsBatch(Storage, c, a, b[1], b[2], now).err = "NotAuthorized"
        /\ (c = owner /\ a # c) =>
             /\ \A b \in BOOLEAN : setAgentStatus(Storage, c, a, b).err = "none"
             /\ recordAction(Storage, c, a, 1, 1, now).err =
                    IF Overflows(totalActions[a], 1) \/ Overflows(actionCounts[a][1], 1)
                    THEN "Panic" ELSE "none"
             /\ recordActionsBatch(Storage, c, a, <<>>, <<>>, now).err = "none"

\* An account that is not the checker's owner is refused by both of its
\* owner-gated operations, which the owner can use.
CheckerOwnerOnly ==
    \A c \in Account :
        /\ c # checkerOwner =>
             /\ \A n \in Address : OwnerChange(c, n).err = "NotOwner"
             /\ \A r \in Ratios \cup {0} : RatioChange(c, r).err = "NotOwner"
        /\ c = checkerOwner =>
             /\ \A n \in Account : OwnerChange(c, n).err = "none"
             /\ \A r \in Ratios : RatioChange(c, r).err = "none"

\* A step that changes the ledger's owner is a successful transferOwnership
\* sent by the owner before the step, who is refused after it.
LedgerOwnerStep ==
    owner' # owner =>
        (/\ transferOwnership(Storage, owner, owner').err = "none"
         /\ transferOwnership(Storage, owner, owner').st.owner = owner'
         /\ checkerOwner' = checkerOwner
         /\ \A n \in Address : transferOwnership(Storage', owner, n).err = "NotOwner")

\* The same for the checker's owner.
CheckerOwnerStep ==
    checkerOwner' # checkerOwner =>
        (/\ OwnerChange(checkerOwner, checkerOwner').err = "none"
         /\ OwnerChange(checkerOwner, checkerOwner').owner = checkerOwner'
         /\ owner' = owner /\ livenessRatio' = livenessRatio
         /\ \A n \in Address :
              transferOwnershipChecker(checkerOwner', checkerOwner, n).err = "NotOwner")

\* C27: transferOwnership(newOwner), of the ledger and of the checker,
\* succeeds only when the current owner sends it with a non-zero newOwner
\* (NotOwner or ZeroAddress otherwise, owner unchanged); the owner changes in
\* no other way, and after a transfer to a different address the previous
\* owner is refused by every owner-gated operation and by writes to the
\* records of other agents, while the new owner is let through.
C27_OwnershipMovesWithTransfer ==
    /\ [](TransferIsOwnerGated /\ LedgerOwnerOnly /\ CheckerOwnerOnly)
    /\ [][LedgerOwnerStep /\ CheckerOwnerStep]_vars

\* Both contracts belong to the second account, the ledger's by a transfer
\* from its deployer; the deployer has a record of its own with actions and
\* is refused by the owner-gated operations of both contracts, and the new
\* owner can write to the deployer's record.
C27_Witness ==
    /\ owner = 2 /\ checkerOwner = 2
    /\ totalActions[1] = 1 /\ totalActions[2] = 1
    /\ transferOwnership(Storage, 1, 1).err = "NotOwner"
    /\ recordAction(Storage, 1, 2, 1, 1, now).err = "NotAuthorized"
    /\ setAgentStatus(Storage, 1, 2, FALSE).err = "NotAuthorized"
    /\ OwnerChange(1, 1).err = "NotOwner"
    /\ RatioChange(1, ONE).err = "NotOwner"
    /\ recordAction(Storage, 2, 1, 1, 1, now).err = "none"
    /\ OwnerChange(2, 1).err = "none"

\* C28: when a maximum-inactivity bound is configured (non-zero), isRatioPass
\* returns false if lastActionAt of the current snapshot is 0 or if the time
\* of evaluation minus that lastActionAt exceeds the bound, also when the
\* totals satisfy the liveness ratio.
C28_InactiveTooLongNeverPasses ==
    (/\ outcome = "returned"
     /\ maxInactivity # 0
     /\ Len(curNonces) = 3
     /\ (curNonces[2] = 0 \/ now - curNonces[2] > maxInactivity)) =>
        ratioPass = FALSE

\* With a bound of five seconds, an active agent whose last action was six
\* seconds before the evaluation and whose total grew by one in six seconds,
\* enough for a tenth of an action per second, failed; without the bound the
\* same call passes, and so does one whose last action was five seconds ago.
C28_Witness ==
    /\ outcome = "returned" /\ ~ratioPass
    /\ maxInactivity = 5 /\ livenessRatio = ONE \div 10 /\ minActionsPerPeriod = 1
    /\ now = 12
    /\ curNonces = <<4, 6, 1>> /\ lastNonces = <<3, 0, 1>> /\ tsDelta = 6
    /\ isRatioPassThreeField(livenessRatio, minActionsPerPeriod, 0, now,
                             curNonces, lastNonces, tsDelta)
    /\ isRatioPassThreeField(livenessRatio, minActionsPerPeriod, maxInactivity, now,
                             <<4, 7, 1>>, lastNonces, tsDelta)

\* ------------------------------------------- direct writes, verified ledger
\* The batches of equal lengths and non-zero amounts, the empty one included.
ValidBatches ==
    {b \in BatchInputs :
        Len(b[1]) = Len(b[2]) /\ \A i \in 1..Len(b[2]) : b[2][i] # 0}

\* The amount a batch adds to action type t.
AmountOfType(b, t) ==
    SumSeq([i \in 1..Len(b[1]) |-> IF b[1][i] = t THEN b[2][i] ELSE 0])

\* The call with outcome r succeeded and credited to the record of c, and to
\* nothing else, the amounts added(t) per action type.
CreditsCaller(c, r, added(_)) ==
    LET S2 == Tx(Storage, r)
        sum == SumOver([t \in ActionTypes |-> added(t)], ActionTypes)
    IN /\ r.err = "none"
       /\ \A t \in ActionTypes : S2.counts[c][t] = actionCounts[c][t] + added(t)
       /\ S2.total[c] = totalActions[c] + sum
       /\ sum > 0 => S2.lastAt[c] = now /\ S2.active[c]
       /\ sum = 0 => S2 = Storage
       /\ \A a \in Address \ {c} : Record(S2, a) = Record(Storage, a)
       /\ S2.owner = owner /\ S2.mainSigner = mainSigner /\ S2.used = actionNoncesUsed

\* The call with outcome r was refused as not sent by the owner, and changed
\* nothing.
RefusedAsNotOwner(r) ==
    r.err = "OwnableUnauthorizedAccount" /\ Tx(Storage, r) = Storage

\* C29 (as stated): in the signature-verified ledger every recordAction and
\* recordActionsBatch by a non-owner fails and changes nothing, and every
\* such call by the owner, with non-zero amounts and sequences of equal
\* length, succeeds and credits the owner's own record.
C29_OwnerAlwaysSucceeds ==
    variant = "B" =>
        \A c \in Account :
            /\ \A t \in ActionTypes, m \in Amounts :
                 LET r == recordActionB(Storage, c, t, m, now) IN
                 IF c # owner THEN RefusedAsNotOwner(r)
                 ELSE m > 0 =>
                        CreditsCaller(c, r, LAMBDA u : IF u = t THEN m ELSE 0)
            /\ \A b \in BatchInputs :
                 LET r == recordActionsBatchB(Storage, c, b[1], b[2], now) IN
                 IF c # owner THEN RefusedAsNotOwner(r)
                 ELSE b \in ValidBatches =>
                        CreditsCaller(c, r, LAMBDA u : AmountOfType(b, u))

\* C29 (amended): in the signature-verified ledger recordAction and
\* recordActionsBatch are owner-only: a call by a non-owner fails and changes
\* nothing; a call by the owner with non-zero amounts and sequences of equal
\* length succeeds and credits the owner's own record and no other, unless it
\* would take the owner's total past the largest value of its type, when it
\* aborts and changes nothing.
C29_OwnerOnlyDirectWrites ==
    variant = "B" =>
        \A c \in Account :
            /\ \A t \in ActionTypes, m \in Amounts :
                 LET r == recordActionB(Storage, c, t, m, now) IN
                 IF c # owner THEN RefusedAsNotOwner(r)
                 ELSE m > 0 =>
                        IF Overflows(totalActions[c], m)
                        THEN r.err = "Panic" /\ Tx(Storage, r) = Storage
                        ELSE CreditsCaller(c, r, LAMBDA u : IF u = t THEN m ELSE 0)
            /\ \A b \in BatchInputs :
                 LET r == recordActionsBatchB(Storage, c, b[1], b[2], now) IN
                 IF c # owner THEN RefusedAsNotOwner(r)
                 ELSE b \in ValidBatches =>
                        IF Overflows(totalActions[c], SumSeq(b[2]))
                        THEN r.err = "Panic" /\ Tx(Storage, r) = Storage
                        ELSE CreditsCaller(c, r, LAMBDA u : AmountOfType(b, u))

\* The owner, who is not the main signer, has recorded actions of both types
\* itself, up to the largest total, so that its next write aborts; the other
\* account has no record and its direct writes are refused.
C29_Witness ==
    /\ variant = "B"
    /\ owner \in Account /\ owner # mainSigner
    /\ actionCounts[owner][1] = 1 /\ actionCounts[owner][2] = 1
    /\ lastActionAt[owner] = now /\ agentActive[owner]
    /\ totalActions[owner] = MaxUint
    /\ recordActionB(Storage, owner, 1, 1, now).err = "Panic"
    /\ \E d \in Account \ {owner} :
         /\ totalActions[d] = 0
         /\ RefusedAsNotOwner(recordActionB(Storage, d, 1, 1, now))
         /\ RefusedAsNotOwner(recordActionsBatchB(Storage, d, <<2>>, <<1>>, now))

\* ------------------------------------------------------------ no silent wrap
\* The call with outcome r aborted on the checked addition and changed nothing.
AbortsOnOverflow(r) == r.err = "Panic" /\ Tx(Storage, r) = Storage

\* After the call with outcome r no counter and no total is smaller than
\* before it.
NoCounterSmaller(r) ==
    LET S2 == Tx(Storage, r) IN
    \A a \in Address :
        /\ S2.total[a] >= totalActions[a]
        /\ \A t \in ActionTypes : S2.counts[a][t] >= actionCounts[a][t]

\* C30: counters never silently wrap.  A recordAction, recordActionsBatch or
\* verifyAndConsumeAction that passes its other checks and whose increment
\* would take a per-type counter or the total past the largest value of the
\* word aborts and changes nothing; otherwise it stores the exact sums, also
\* for an amount as large as the word allows; and no call of any kind leaves a
\* counter or a total smaller than it was.
C30_NoSilentWrap ==
    /\ \A c \in Account : AllOutcomes(c, NoCounterSmaller)
    /\ \A c \in Account, a \in Account :
         MayRecord(c, a) =>
           /\ \A t \in ActionTypes, m \in Amounts \ {0} :
                LET r == RecordOutcome(c, a, t, m) IN
                IF actionCounts[a][t] + m > MaxUint \/ totalActions[a] + m > MaxUint
                THEN AbortsOnOverflow(r)
                ELSE /\ r.err = "none"
                     /\ r.st.counts[a][t] = actionCounts[a][t] + m
                     /\ r.st.total[a] = totalActions[a] + m
                     /\ r.ret = actionCounts[a][t] + m
           /\ \A b \in ValidBatches :
                LET r == BatchOutcome(<<c, a, b>>) IN
                IF \/ \E t \in ActionTypes :
                        actionCounts[a][t] + AmountOfType(b, t) > MaxUint
                   \/ totalActions[a] + SumSeq(b[2]) > MaxUint
                THEN AbortsOnOverflow(r)
                ELSE /\ r.err = "none"
                     /\ \A t \in ActionTypes :
                          r.st.counts[a][t] = actionCounts[a][t] + AmountOfType(b, t)
                     /\ r.st.total[a] = totalActions[a] + SumSeq(b[2])
                     /\ r.ret = SumSeq(b[2])
    /\ variant = "B" =>
         \A x \in VerifyCalls :
            (x[3] \notin actionNoncesUsed /\ SignedByMainSigner(x)) =>
               LET r == VerifyOutcome(Storage, x)
                   t == ToBytes32(x[2])
               IN IF \/ actionCounts[mainSigner][t] + 1 > MaxUint
                     \/ totalActions[mainSigner] + 1 > MaxUint
                  THEN AbortsOnOverflow(r)
                  ELSE /\ r.err = "none"
                       /\ r.st.counts[mainSigner][t] = actionCounts[mainSigner][t] + 1
                       /\ r.st.total[mainSigner] = totalActions[mainSigner] + 1

\* The total of one agent is at the largest value of the word and a further
\* action for it aborts, while an agent without actions can be credited the
\* largest amount in one call, which is then stored exactly.
C30_Witness ==
    \E c \in Account, a \in Account, d \in Account, e \in Account :
        /\ MayRecord(c, a) /\ MayRecord(d, e)
        /\ totalActions[a] = MaxUint
        /\ lastActionAt[a] < now
        /\ AbortsOnOverflow(RecordOutcome(c, a, 1, 1))
        /\ AbortsOnOverflow(BatchOutcome(<<c, a, <<<<2>>, <<1>>>> >>))
        /\ totalActions[e] = 0
        /\ RecordOutcome(d, e, 2, MaxUint).err = "none"
        /\ RecordOutcome(d, e, 2, MaxUint).st.total[e] = MaxUint

\* ------------------------------------------------- batch against single calls
\* recordAction(agent, actionTypes[i], amounts[i]) by sender for i from k on,
\* one call after the other at the same time, each on the storage the call
\* before it left; the first failure ends the sequence.
RECURSIVE recordActionsInOrder(_, _, _, _, _, _, _)
recordActionsInOrder(S, sender, agent, actionTypes, amounts, time, k) ==
    IF k > Len(actionTypes) THEN Result(S, "none", 0)
    ELSE LET r == recordAction(S, sender, agent, actionTypes[k], amounts[k], time) IN
         IF r.err # "none" THEN Result(S, r.err, 0)
         ELSE recordActionsInOrder(r.st, sender, agent, actionTypes, amounts, time, k + 1)

\* C31: in the self-or-owner ledger a successful recordActionsBatch(agent,
\* types, amounts) leaves the storage that recordAction(agent, types[i],
\* amounts[i]) for i = 0..n-1, applied in order at the same time, leaves:
\* the same counters (also when an action type occurs several times), total,
\* lastActionAt and active flag; and it returns the sum of the amounts, which
\* is the increase of totalActions(agent).
C31_BatchIsSequence ==
    variant = "A" =>
        \A c \in Account, a \in Address, b \in BatchInputs :
            LET r == recordActionsBatch(Storage, c, a, b[1], b[2], now) IN
            r.err = "none" =>
                LET q == recordActionsInOrder(Storage, c, a, b[1], b[2], now, 1) IN
                /\ q.err = "none"
                /\ q.st = r.st
                /\ r.ret = SumSeq(b[2])
                /\ r.st.total[a] = totalActions[a] + r.ret

\* A batch that names one action type twice succeeds for an agent without
\* actions, and a batch of one entry succeeds for an agent that is inactive
\* and whose only action was recorded earlier.
C31_Witness ==
    /\ variant = "A"
    /\ \E a \in Account, e \in Account :
         /\ totalActions[a] = 0
         /\ LET r == recordActionsBatch(Storage, a, a, <<2, 2>>, <<1, 1>>, now) IN
            /\ r.err = "none" /\ r.ret = 2
            /\ r.st.counts[a][2] = 2 /\ r.st.lastAt[a] = now /\ r.st.active[a]
         /\ actionCounts[e][1] = 1 /\ totalActions[e] = 1
         /\ lastActionAt[e] < now /\ ~agentActive[e]
         /\ LET r == recordActionsBatch(Storage, owner, e, <<1>>, <<1>>, now) IN
            /\ r.err = "none" /\ r.st.lastAt[e] = now /\ r.st.active[e]

\* ------------------------------------------------ the decision of isRatioPass
\* The conditions under which the call on record is to return true, in exact
\* arithmetic.
PassConditions ==
    /\ Len(curNonces) = Len(lastNonces) /\ Len(curNonces) >= 2
    /\ curNonces[2] # 0
    /\ tsDelta # 0
    /\ tsDelta < THIRTY_DAYS_SECONDS
    /\ curNonces[1] > lastNonces[1]
    /\ (Delta * ONE) \div tsDelta >= livenessRatio

\* The previous snapshot of the call on record with another active flag.
OtherPreviousFlag == [lastNonces EXCEPT ![2] = 1 - @]

\* C32: isRatioPass(cur, prev, ts) returns true exactly when the lengths are
\* equal and at least 2, cur[1] # 0, ts # 0, ts < 2,592,000, cur[0] > prev[0]
\* and floor((cur[0] - prev[0]) * 10^18 / ts) >= livenessRatio, and false
\* otherwise; the result does not depend on prev[1].
C32_PassesExactlyWhen ==
    outcome # "idle" =>
        /\ outcome = "returned"
        /\ ratioPass = PassConditions
        /\ Len(lastNonces) = 2 =>
              Evaluation(curNonces, OtherPreviousFlag, tsDelta) =
                  Evaluation(curNonces, lastNonces, tsDelta)

\* ------------------------------------------- snapshots in chronological order
\* The snapshot of the agent as getMultisigNonces returns it now.
CurrentSnapshot == getMultisigNonces(Storage, snapAgent)

\* This step is a successful write of a positive amount for the agent.
PositiveWrite(agent) ==
    \/ \E c \in Account, t \in ActionTypes, m \in Amounts \ {0} :
          LET r == recordAction(Storage, c, agent, t, m, now) IN
          r.err = "none" /\ Storage' = r.st
    \/ \E t \in ActionTypes, m \in Amounts \ {0} :
          LET r == recordActionForSelf(Storage, agent, t, m, now) IN
          r.err = "none" /\ Storage' = r.st
    \/ \E c \in Account, b \in BatchInputs :
          LET r == recordActionsBatch(Storage, c, agent, b[1], b[2], now) IN
          r.err = "none" /\ r.ret > 0 /\ Storage' = r.st

\* The earlier snapshot against the present one: two elements, the total and
\* the flag, a total that has not gone down, and no pass while it is the same.
SnapshotsInOrder ==
    snapAgent # ZERO_ADDRESS =>
        /\ Len(CurrentSnapshot) = 2
        /\ CurrentSnapshot[1] = totalActions[snapAgent]
        /\ CurrentSnapshot[2] = (IF agentActive[snapAgent] THEN 1 ELSE 0)
        /\ CurrentSnapshot[1] >= snapNonces[1]
        /\ CurrentSnapshot[1] = snapNonces[1] =>
              \A t \in Elapsed :
                  LET r == Evaluation(CurrentSnapshot, snapNonces, t) IN
                  r.err = "none" /\ r.ret = FALSE

\* The total of an agent moves only in a successful positive-amount write.
TotalMovesOnlyInWrite ==
    \A a \in Account : totalActions'[a] # totalActions[a] => PositiveWrite(a)

\* Taking a snapshot writes to neither contract.
SnapshotIsARead ==
    snapVars' # snapVars =>
        UNCHANGED <<ledgerVars, checkerOwner, livenessRatio, floorVars>>

\* C33: of two snapshots getMultisigNonces(agent) taken in chronological
\* order the later has a total at least the earlier one's and is exactly
\* [totalActions(agent), 1 if isAgentActive(agent) else 0]; without a
\* successful positive-amount write for the agent in between, isRatioPass(cur,
\* prev, ts) is false for every ts; getMultisigNonces changes no state.
C33_SnapshotsOnlyGrow ==
    []SnapshotsInOrder /\ [][TotalMovesOnlyInWrite /\ SnapshotIsARead]_vars

\* A snapshot of an agent with one action taken while it was inactive; later
\* the agent is active with the same total, and no elapsed time passes.
C33_Witness ==
    /\ snapAgent # ZERO_ADDRESS
    /\ snapNonces = <<1, 0>>
    /\ CurrentSnapshot = <<1, 1>>
    /\ lastActionAt[snapAgent] < now
    /\ \A t \in Elapsed : Evaluation(CurrentSnapshot, snapNonces, t).ret = FALSE

\* ------------------------------------------------- clearing the active flag
\* This step is a successful setAgentStatus(agent, false) of the agent or of
\* the owner.
StatusCleared(agent) ==
    /\ variant = "A"
    /\ \E c \in Account :
          /\ c = agent \/ c = owner
          /\ LET r == setAgentStatus(Storage, c, agent, FALSE) IN
             r.err = "none" /\ Storage' = r.st

\* setAgentStatus(agent, false) of anybody else is refused.
OthersCannotClear ==
    variant = "A" =>
        \A c \in Account, a \in Address :
            (c # a /\ c # owner) =>
                setAgentStatus(Storage, c, a, FALSE).err = "NotAuthorized"

\* A flag goes from true to false only in such a step, and never in the
\* signature-verified ledger.
FlagClearedOnlyByStatus ==
    \A a \in Address :
        (agentActive[a] /\ ~agentActive'[a]) => (variant = "A" /\ StatusCleared(a))

\* C34: the active flag of an agent goes from true to false only through a
\* successful setAgentStatus(agent, false) sent by that agent or by the owner;
\* no recordAction, recordActionsBatch, verifyAndConsumeAction or
\* transferOwnership clears it, and in the signature-verified ledger a flag
\* that became true stays true.
C34_FlagClearedOnlyByStatus ==
    []OthersCannotClear /\ [][FlagClearedOnlyByStatus]_vars

\* An agent other than the owner with recorded actions, which switched its
\* flag on, and whose flag is off again.
C34_Witness ==
    /\ variant = "A"
    /\ \E a \in Account : totalActions[a] > 0 /\ ~agentActive[a] /\ a # owner

\* ------------------------------------------------- the timestamp and the total
\* lastActionTimestamp(agent) is zero exactly when totalActions(agent) is.
StampedIffCounted ==
    \A a \in Address : (lastActionAt[a] = 0) <=> (totalActions[a] = 0)

\* A step sets the timestamp of an agent exactly when it adds to its total,
\* and then to the time of the call; no timestamp goes down.
StampFollowsWrites ==
    \A a \in Address :
        /\ lastActionAt'[a] >= lastActionAt[a]
        /\ totalActions'[a] # totalActions[a] =>
              (totalActions'[a] > totalActions[a] /\ lastActionAt'[a] = now)
        /\ lastActionAt'[a] # lastActionAt[a] => totalActions'[a] > totalActions[a]

\* C35: with a clock above zero, lastActionTimestamp(agent) is 0 if and only
\* if totalActions(agent) is 0 in every reachable state: setAgentStatus and
\* empty batches never set the timestamp, every successful positive-amount
\* write sets it, and it never decreases while the clock does not.
C35_StampedIffCounted ==
    [](now > 0 /\ StampedIffCounted) /\ [][StampFollowsWrites]_vars

\* One agent was switched on and given an empty batch without any action, so
\* it has no timestamp; the other has actions stamped at an earlier time.
C35_Witness ==
    /\ variant = "A"
    /\ \E a, e \in Account :
         /\ agentActive[a] /\ totalActions[a] = 0 /\ lastActionAt[a] = 0
         /\ recordActionsBatch(Storage, a, a, <<>>, <<>>, now).st.lastAt[a] = 0
         /\ totalActions[e] > 0 /\ lastActionAt[e] > 0 /\ lastActionAt[e] < now

\* ------------------------------------------------- the signer of variant B
\* The signer is set and the constructor refuses a zero signer.
SignerIsSet ==
    /\ mainSigner # ZERO_ADDRESS
    /\ \A o \in Address : constructorB(o, ZERO_ADDRESS).err # "none"

\* No step writes mainSigner: _changeMainSigner is private and has no caller.
SignerKept == mainSigner' = mainSigner

\* C36: in the signature-verified ledger mainSigner is fixed at construction:
\* it is non-zero and no sequence of externally callable operations changes
\* it.
C36_SignerFixed == []SignerIsSet /\ [][SignerKept]_vars

\* Ownership was renounced after actions of the signer were consumed and the
\* owner wrote directly; the signer is still in place.
C36_Witness ==
    /\ variant = "B"
    /\ owner = ZERO_ADDRESS
    /\ actionNoncesUsed # {}
    /\ mainSigner # ZERO_ADDRESS
    /\ \E a \in Account : a # mainSigner /\ totalActions[a] > 0

\* ------------------------------------------------- who can be credited (B)
\* C37: in the signature-verified ledger every address that is not mainSigner
\* and has never made a successful owner-only recordAction or
\* recordActionsBatch call has totalActions 0, all action counts 0,
\* lastActionAt 0 and active = false.
C37_ThirdPartiesStayEmpty ==
    variant = "B" =>
        \A a \in Address :
            (a # mainSigner /\ a \notin directWriters) => Record(Storage, a) = EmptyRecord

\* A relayer that is neither the signer nor a direct writer, after an action
\* of the signer was consumed and an owner wrote directly; an action it relays
\* now succeeds and leaves its own record empty.
C37_Witness ==
    /\ variant = "B"
    /\ directWriters # {}
    /\ actionNoncesUsed # {}
    /\ totalActions[mainSigner] > 0
    /\ \E c \in Account :
         /\ c # mainSigner /\ c \notin directWriters
         /\ \E i \in ActionIds, n \in Nonces, t \in SignedTimes :
              LET r == verifyAndConsumeAction(Storage, c, i, n, t,
                                              SignatureOf(mainSigner, i, n, t), now) IN
              /\ r.err = "none"
              /\ Record(r.st, c) = EmptyRecord
              /\ Record(r.st, mainSigner) # EmptyRecord

\* ------------------------------------------------- the signed timestamp (B)
\* The call of sender c with the payload (i, n, t) signed by mainSigner.
SignedCall(c, i, n, t) ==
    verifyAndConsumeAction(Storage, c, i, n, t, SignatureOf(mainSigner, i, n, t), now)

\* The timestamp is part of what is signed: the signature over another
\* timestamp does not pass.
TimestampIsSigned ==
    \A c \in Account, i \in ActionIds, n \in Nonces \ actionNoncesUsed :
        \A t, t2 \in SignedTimes :
            t2 # t =>
                verifyAndConsumeAction(Storage, c, i, n, t,
                    SignatureOf(mainSigner, i, n, t2), now).err = "InvalidSignature"

\* The call succeeds and stamps the record of mainSigner with the time of the
\* call.
StampedWithCallTime(r) ==
    r.err = "none" /\ r.st.lastAt[mainSigner] = now /\ now \notin SignedTimes

\* C38 as stated: with a valid signature of mainSigner and an unused nonce the
\* call succeeds for every signed timestamp and sets lastActionAt(mainSigner)
\* to the time of the call.
C38_AnyTimestampSucceeds ==
    variant = "B" =>
        /\ TimestampIsSigned
        /\ \A c \in Account, i \in ActionIds, n \in Nonces \ actionNoncesUsed :
              \A t \in SignedTimes : StampedWithCallTime(SignedCall(c, i, n, t))

\* C38 (amended): the signed timestamp is bound into the signature but not
\* otherwise checked: with a valid signature of mainSigner and an unused nonce
\* the call succeeds for every timestamp, past or future, and sets
\* lastActionAt(mainSigner) to the time of the call, unless the total of
\* mainSigner is at the largest value of its type; then it aborts for every
\* timestamp and nothing changes.
C38_TimestampNotChecked ==
    variant = "B" =>
        /\ TimestampIsSigned
        /\ \A c \in Account, i \in ActionIds, n \in Nonces \ actionNoncesUsed :
              \A t \in SignedTimes :
                  LET r == SignedCall(c, i, n, t) IN
                  IF totalActions[mainSigner] < MaxUint
                  THEN StampedWithCallTime(r)
                  ELSE r.err = "Panic" /\ Tx(Storage, r) = Storage

\* Only consumed actions were recorded, the last of them at the present time,
\* which is after the earlier and before the later signed timestamp.
C38_Witness ==
    /\ variant = "B"
    /\ directWriters = {}
    /\ \E n \in Nonces : successes[n] = 1
    /\ lastActionAt[mainSigner] = now
    /\ \E t, t2 \in SignedTimes : t < now /\ now < t2

\* ------------------------------------------------- an owner always exists
\* Neither constructor accepts a zero owner.
ConstructorsRejectZeroOwner ==
    /\ constructorA(ZERO_ADDRESS).err = "ZeroAddress"
    /\ \A repository \in Account, r \in Ratios :
          constructorChecker(repository, r, ZERO_ADDRESS).err = "ZeroAddress"

\* Neither owner can hand over to the zero address.
TransfersRejectZeroOwner ==
    /\ transferOwnership(Storage, owner, ZERO_ADDRESS).err = "ZeroAddress"
    /\ transferOwnershipChecker(checkerOwner, checkerOwner, ZERO_ADDRESS).err
          = "ZeroAddress"

\* Some account passes the owner gate of each contract.
OwnerCanAct ==
    /\ \E c \in Account : onlyOwner(Storage, c)
    /\ \E c \in Account, r \in Ratios :
          changeLivenessRatio(checkerOwner, livenessRatio, c, r).err = "none"

\* C39: in the self-or-owner ledger and in the checker the owner is never the
\* zero address in any reachable state: the constructors reject a zero owner
\* and transferOwnership rejects a zero target, so an owner able to perform
\* owner-gated operations always exists.
C39_OwnerNeverZero ==
    /\ owner # ZERO_ADDRESS
    /\ checkerOwner # ZERO_ADDRESS
    /\ ConstructorsRejectZeroOwner
    /\ TransfersRejectZeroOwner
    /\ OwnerCanAct

\* Both contracts are owned by another account than the one that deployed the
\* ledger, after actions were recorded.
C39_Witness ==
    /\ owner = 2
    /\ checkerOwner = 2
    /\ totalActions[1] > 0
    /\ transferOwnership(Storage, 2, ZERO_ADDRESS).st.owner = 2

====
